---- MODULE Spec2Model ----
(***************************************************************************)
(* Model of the energy_audit scoring and recommendation core.             *)
(*                                                                         *)
(* The facility snapshot (DataCenter) is built by an external producer;   *)
(* ScoringEngine.score and RecommendationEngine.generate are then run on  *)
(* it, possibly more than once.                                            *)
(*                                                                         *)
(* Numbers.  The Python code computes with floats and rounds results with  *)
(* round(x, n).  The model computes with exact rationals kept as scaled    *)
(* integers, and rounds half-to-even like round():                         *)
(*    scores, percentages, COP, PUE targets      hundredths                *)
(*    PUE of a reading, averages rounded to 4    ten-thousandths           *)
(*    dollars                                    cents                     *)
(*    kWh                                        hundredths of a kWh       *)
(*    energy_cost_per_kwh                        thousandths of a dollar   *)
(*    utilization and renewable fractions        percent (hundredths)      *)
(*    watts, kW, months, gCO2/kWh                units                     *)
(*    total_power_capacity_mw                    thousandths of a MW       *)
(***************************************************************************)
EXTENDS Integers, Sequences, FiniteSets, TLC

VARIABLES
    dc,        \* the DataCenter snapshot (config, servers, racks, ...)
    nbuilt,    \* number of producer steps that built the snapshot
    pc,        \* "build" | "scored" | "done" | "failed"
    out,       \* result of the call in progress: box1, box2, box3, overall, grade, recs
    raised,    \* TRUE once a call has raised an exception
    gq,        \* score_to_grade queries made so far: <<[num, den, grade], ...>>
    files,     \* the assessment files of the base directory, by file name
    index,     \* the entries of assessment_history.json, in the order saved
    latest     \* the last get_latest_assessment call and what it returned

vars == <<dc, nbuilt, pc, out, raised, gq, files, index, latest>>

history_vars == <<files, index, latest>>

----------------------------------------------------------------------------
(* Bounds of the model *)

MaxBuild == 2
MaxGradeQueries == 2
MaxSaves == 3

----------------------------------------------------------------------------
(* Arithmetic helpers *)

Max(a, b) == IF a >= b THEN a ELSE b
Min(a, b) == IF a <= b THEN a ELSE b
Clamp(x, lo, hi) == Max(lo, Min(hi, x))
Abs(x) == IF x < 0 THEN -x ELSE x

\* round(n / d) to the nearest integer, ties to even (Python's round), d > 0.
RoundDiv(n, d) ==
    LET q == n \div d
        r == n - q * d
    IN  IF 2 * r < d THEN q
        ELSE IF 2 * r > d THEN q + 1
        ELSE IF q % 2 = 0 THEN q ELSE q + 1

RECURSIVE SumRange(_, _, _)
\* sum(f[i] for i in lo..hi), by halves to keep the evaluation shallow
SumRange(f, lo, hi) ==
    IF lo > hi THEN 0
    ELSE IF lo = hi THEN f[lo]
    ELSE LET mid == (lo + hi) \div 2
         IN  SumRange(f, lo, mid) + SumRange(f, mid + 1, hi)

\* sum(...) over a whole list of numbers
Sum(s) == SumRange(s, 1, Len(s))

RECURSIVE MulDivQR(_, _, _)
\* q, r with a * b = q * c + r and 0 <= r < c, for 0 <= a < c and b >= 0,
\* by doubling so that no intermediate value leaves the 32-bit range
MulDivQR(a, b, c) ==
    IF b = 0 THEN [q |-> 0, r |-> 0]
    ELSE LET h == MulDivQR(a, b \div 2, c)
             carry == IF 2 * h.r >= c THEN 1 ELSE 0
             q2 == 2 * h.q + carry
             r2 == 2 * h.r - carry * c
         IN  IF b % 2 = 0 THEN [q |-> q2, r |-> r2]
             ELSE IF r2 + a >= c THEN [q |-> q2 + 1, r |-> r2 + a - c]
             ELSE [q |-> q2, r |-> r2 + a]

\* round(a * b / c), ties to even, for a, b >= 0 and c > 0
MulDivNat(a, b, c) ==
    LET h == MulDivQR(a % c, b, c)
        q == (a \div c) * b + h.q
    IN  IF 2 * h.r < c THEN q
        ELSE IF 2 * h.r > c THEN q + 1
        ELSE IF q % 2 = 0 THEN q ELSE q + 1

\* round(a * b / c), ties to even, for b >= 0 and c > 0
MulDiv(a, b, c) == IF a < 0 THEN -MulDivNat(-a, b, c) ELSE MulDivNat(a, b, c)

\* sum(1 for x in s if P(x))
Count(s, P(_)) == Cardinality({i \in 1..Len(s) : P(s[i])})

\* [x for x in s if P(x)]
Filter(s, P(_)) == SelectSeq(s, P)

\* [F(x) for x in s]
Map(s, F(_)) == [i \in 1..Len(s) |-> F(s[i])]

----------------------------------------------------------------------------
(* thresholds.py *)

GRADE_A_MIN == 85
GRADE_B_MIN == 70
GRADE_C_MIN == 55
GRADE_D_MIN == 40

UTIL_TARGET_CPU == 60        \* 0.60, percent
UTIL_TARGET_GPU == 75        \* 0.75, percent
COST_BENCHMARK_PER_KWH == 100  \* 0.10 USD, thousandths of a dollar
COP_BENCHMARK_AIR == 300     \* 3.0, hundredths
COP_BENCHMARK_LIQUID == 500  \* 5.0, hundredths
USEFUL_LIFE_MONTHS == 60
REFRESH_WINDOW_MIN == 36
REFRESH_WINDOW_MAX == 60

Grades == {"A", "B", "C", "D", "F"}

\* score_to_grade in the off-by-one reading "strictly above the bound".
score_to_grade_exclusive(num, den) ==
    IF num > GRADE_A_MIN * den THEN "A"
    ELSE IF num > GRADE_B_MIN * den THEN "B"
    ELSE IF num > GRADE_C_MIN * den THEN "C"
    ELSE IF num > GRADE_D_MIN * den THEN "D"
    ELSE "F"

\* score_to_grade(score) for the score num / den (den > 0)
score_to_grade(num, den) ==
    IF num >= GRADE_A_MIN * den THEN "A"
    ELSE IF num >= GRADE_B_MIN * den THEN "B"
    ELSE IF num >= GRADE_C_MIN * den THEN "C"
    ELSE IF num >= GRADE_D_MIN * den THEN "D"
    ELSE "F"

\* Grade of a score held in hundredths
GradeOf(score) == score_to_grade(score, 100)

----------------------------------------------------------------------------
(* weights.py, in hundredths *)

BOX1_WEIGHT == 40
BOX2_WEIGHT == 30
BOX3_WEIGHT == 30

\* BOX1_PUE_WEIGHT set to 0.30
BOX1_PUE_WEIGHT_heavier == BOX1_WEIGHT - 10

BOX1_PUE_WEIGHT == 25
BOX1_UTILIZATION_WEIGHT == 20
BOX1_COST_WEIGHT == 20
BOX1_COOLING_WEIGHT == 15
BOX1_AVAILABILITY_WEIGHT == 10
BOX1_CARBON_WEIGHT == 10

BOX2_ZOMBIE_WEIGHT == 30
BOX2_OVERPROV_WEIGHT == 25
BOX2_LEGACY_WEIGHT == 20
BOX2_COOLING_WASTE_WEIGHT == 15
BOX2_STRANDED_WEIGHT == 10

BOX3_FORECAST_WEIGHT == 20
BOX3_REFRESH_WEIGHT == 20
BOX3_SCHEDULING_WEIGHT == 20
BOX3_RENEWABLE_WEIGHT == 20
BOX3_TREND_WEIGHT == 20

----------------------------------------------------------------------------
(* data/models.py: computed properties *)

ServerTypes == {"cpu", "gpu_training", "gpu_inference", "storage"}
CoolingTypes == {"air", "liquid", "hybrid"}

\* Division sites: a zero denominator here is a ZeroDivisionError in Python.
DivZero(d) == d = 0

\* round(n / d) where the caller reports DivZero(d) separately
Div(n, d) == IF d = 0 THEN 0 ELSE RoundDiv(n, d)

\* EnergyReading.pue, in ten-thousandths
pue(r) ==
    IF r.it_equipment_power_kw = 0 THEN 0
    ELSE RoundDiv(r.total_facility_power_kw * 10000, r.it_equipment_power_kw)

\* Server.is_past_warranty
is_past_warranty(s) == s.age_months > s.warranty_months

\* Rack.power_utilization_pct, in hundredths of a percent
power_utilization_pct(r) ==
    IF r.max_power_kw = 0 THEN 0
    ELSE RoundDiv(r.current_power_kw * 10000, r.max_power_kw)

\* CoolingSystem.load_pct, in hundredths of a percent
load_pct(cs) ==
    IF cs.capacity_kw = 0 THEN 0
    ELSE RoundDiv(cs.current_load_kw * 10000, cs.capacity_kw)

\* DataCenter.total_servers
total_servers(d) == Len(d.servers)

IsGpuServer(s) == s.server_type \in {"gpu_training", "gpu_inference"}

\* DataCenter.gpu_server_count
gpu_server_count(d) == Count(d.servers, IsGpuServer)

\* DataCenter.avg_cpu_utilization, in ten-thousandths
avg_cpu_utilization(d) ==
    IF Len(d.servers) = 0 THEN 0
    ELSE LET cpu(s) == s.cpu_utilization
         IN  RoundDiv(Sum(Map(d.servers, cpu)) * 100, Len(d.servers))

HasGpuLoad(s) == s.gpu_utilization > 0

\* DataCenter.avg_gpu_utilization, in ten-thousandths
avg_gpu_utilization(d) ==
    LET gpu_servers == Filter(d.servers, HasGpuLoad)
        gpu(s) == s.gpu_utilization
    IN  IF Len(gpu_servers) = 0 THEN 0
        ELSE RoundDiv(Sum(Map(gpu_servers, gpu)) * 100, Len(gpu_servers))

IsFlaggedZombie(s) == s.is_zombie
IsFlaggedOverprov(s) == s.is_overprovisioned

\* DataCenter.zombie_count
zombie_count(d) == Count(d.servers, IsFlaggedZombie)

\* DataCenter.overprovisioned_count
overprovisioned_count(d) == Count(d.servers, IsFlaggedOverprov)

ValidPue(r) == pue(r) > 0

\* [r for r in readings if r.pue > 0]
valid_readings(readings) == Filter(readings, ValidPue)

\* DataCenter.avg_pue, in ten-thousandths
avg_pue(d) ==
    LET valid == valid_readings(d.energy_readings)
    IN  IF Len(valid) = 0 THEN 0
        ELSE RoundDiv(Sum(Map(valid, pue)), Len(valid))

TotalPower(r) == r.total_facility_power_kw

\* DataCenter.total_energy_kwh, in hundredths of a kWh
total_energy_kwh(d) == Sum(Map(d.energy_readings, TotalPower)) * 100

\* DataCenter.total_cost, in cents
total_cost(d) == MulDiv(total_energy_kwh(d), d.config.energy_cost_per_kwh, 1000)

\* DataCenter.avg_server_age_months, in hundredths of a month
avg_server_age_months(d) ==
    IF Len(d.servers) = 0 THEN 0
    ELSE LET age(s) == s.age_months
         IN  RoundDiv(Sum(Map(d.servers, age)) * 100, Len(d.servers))

\* SubMetricScore(...) as built by the box scorers: the grade is
\* Grade(score_to_grade(score)).
SubMetricScore(name, value, score, weight) ==
    [name |-> name, value |-> value, score |-> score, weight |-> weight,
     grade |-> GradeOf(score)]

\* pydantic field constraints of SubMetricScore
SubMetricValid(m) ==
    /\ m.score >= 0 /\ m.score <= 10000
    /\ m.weight >= 0 /\ m.weight <= 100
    /\ m.grade \in Grades

\* pydantic field constraints of BoxScore
BoxScoreValid(b) ==
    /\ b.box_number >= 1 /\ b.box_number <= 3
    /\ b.overall_score >= 0 /\ b.overall_score <= 10000
    /\ b.grade \in Grades
    /\ \A i \in 1..Len(b.sub_metrics) : SubMetricValid(b.sub_metrics[i])

\* pydantic field constraints of Recommendation
RecommendationValid(r) ==
    /\ r.rank >= 1
    /\ r.box_number >= 1 /\ r.box_number <= 3
    /\ r.monthly_savings_dollars >= 0
    /\ r.monthly_energy_savings_kwh >= 0
    /\ r.effort \in {"low", "medium", "high"}
    /\ r.impact \in {"low", "medium", "high"}

----------------------------------------------------------------------------
(* scoring/box1_present.py *)
(* Each scorer returns val, score (hundredths) and err: TRUE iff the call   *)
(* divides by zero on this snapshot.                                         *)

\* _score_pue: val in ten-thousandths
score_pue(d) ==
    LET p == avg_pue(d)
    IN  IF p <= 0 THEN [val |-> 0, score |-> 0, err |-> FALSE]
        ELSE [val |-> p, score |-> Clamp(20000 - p, 0, 10000), err |-> FALSE]

\* _score_utilization scoring the CPU alone when no server reports GPU load
score_utilization_cpu_alone(d) ==
    IF Len(d.servers) = 0 THEN [val |-> 0, score |-> 0, err |-> FALSE]
    ELSE
      LET cpu_avg == avg_cpu_utilization(d)
          cpu_base == Clamp(5 * cpu_avg, 0, 30000)
          cpu_score == IF cpu_avg > 9000
                       THEN Max(0, cpu_base - 15 * (cpu_avg - 9000))
                       ELSE cpu_base
          gpu_avg == avg_gpu_utilization(d)
          gpu_base == Clamp(4 * gpu_avg, 0, 30000)
          gpu_score == IF gpu_avg > 9500
                       THEN Max(0, gpu_base - 15 * (gpu_avg - 9500))
                       ELSE gpu_base
          total == total_servers(d)
          gpu_count == gpu_server_count(d)
          gpu_weight == IF gpu_avg = 0 THEN 0
                        ELSE IF total > 0 /\ 10 * gpu_count > 3 * total THEN 7 ELSE 4
          cpu_weight == 10 - gpu_weight
      IN  [val |-> RoundDiv(cpu_avg * cpu_weight + gpu_avg * gpu_weight, 10),
           score |-> RoundDiv(cpu_score * cpu_weight + gpu_score * gpu_weight, 30),
           err |-> FALSE]

\* _score_utilization with gpu_fraction >= 0.30 for the GPU weight 0.7
score_utilization_from_30(d) ==
    IF Len(d.servers) = 0 THEN [val |-> 0, score |-> 0, err |-> FALSE]
    ELSE
      LET cpu_avg == avg_cpu_utilization(d)
          cpu_base == Clamp(5 * cpu_avg, 0, 30000)
          cpu_score == IF cpu_avg > 9000
                       THEN Max(0, cpu_base - 15 * (cpu_avg - 9000))
                       ELSE cpu_base
          gpu_avg == avg_gpu_utilization(d)
          gpu_base == Clamp(4 * gpu_avg, 0, 30000)
          gpu_score == IF gpu_avg > 9500
                       THEN Max(0, gpu_base - 15 * (gpu_avg - 9500))
                       ELSE gpu_base
          total == total_servers(d)
          gpu_count == gpu_server_count(d)
          gpu_weight == IF total > 0 /\ 10 * gpu_count >= 3 * total THEN 7 ELSE 4
          cpu_weight == 10 - gpu_weight
      IN  [val |-> RoundDiv(cpu_avg * cpu_weight + gpu_avg * gpu_weight, 10),
           score |-> RoundDiv(cpu_score * cpu_weight + gpu_score * gpu_weight, 30),
           err |-> FALSE]

\* _score_utilization: val in ten-thousandths.  cpu_score and gpu_score are
\* kept in 1/300 of a point, the weights in tenths.
score_utilization(d) ==
    IF Len(d.servers) = 0 THEN [val |-> 0, score |-> 0, err |-> FALSE]
    ELSE
      LET cpu_avg == avg_cpu_utilization(d)
          cpu_base == Clamp(5 * cpu_avg, 0, 30000)
          cpu_score == IF cpu_avg > 9000
                       THEN Max(0, cpu_base - 15 * (cpu_avg - 9000))
                       ELSE cpu_base
          gpu_avg == avg_gpu_utilization(d)
          gpu_base == Clamp(4 * gpu_avg, 0, 30000)
          gpu_score == IF gpu_avg > 9500
                       THEN Max(0, gpu_base - 15 * (gpu_avg - 9500))
                       ELSE gpu_base
          total == total_servers(d)
          gpu_count == gpu_server_count(d)
          \* gpu_fraction > 0.30
          gpu_weight == IF total > 0 /\ 10 * gpu_count > 3 * total THEN 7 ELSE 4
          cpu_weight == 10 - gpu_weight
      IN  [val |-> RoundDiv(cpu_avg * cpu_weight + gpu_avg * gpu_weight, 10),
           score |-> RoundDiv(cpu_score * cpu_weight + gpu_score * gpu_weight, 30),
           err |-> FALSE]

\* _score_cost: val is the cost per kWh
score_cost(d) ==
    LET cost_per_kwh == d.config.energy_cost_per_kwh
    IN  IF cost_per_kwh <= COST_BENCHMARK_PER_KWH
        THEN [val |-> cost_per_kwh, score |-> 10000, err |-> FALSE]
        ELSE [val |-> cost_per_kwh,
              score |-> Clamp(Div((2 * COST_BENCHMARK_PER_KWH - cost_per_kwh) * 10000,
                                  COST_BENCHMARK_PER_KWH), 0, 10000),
              err |-> DivZero(COST_BENCHMARK_PER_KWH)]

IsLiquid(cs) == cs.cooling_type = "liquid"
Cop(cs) == cs.cop

\* The benchmark _score_cooling compares the average COP with
cooling_benchmark(d) ==
    IF 2 * Count(d.cooling_systems, IsLiquid) > Len(d.cooling_systems)
    THEN COP_BENCHMARK_LIQUID ELSE COP_BENCHMARK_AIR

\* The benchmark of the cooling finding taken as that of the score
cooling_finding_benchmark_dominant(d) == cooling_benchmark(d)

\* The benchmark score_box1 compares cool_val with for its COP finding
cooling_finding_benchmark(d) == COP_BENCHMARK_AIR

\* _score_cooling: val is the average COP in hundredths
score_cooling(d) ==
    IF Len(d.cooling_systems) = 0 THEN [val |-> 0, score |-> 5000, err |-> FALSE]
    ELSE
      LET n == Len(d.cooling_systems)
          total_cop == Sum(Map(d.cooling_systems, Cop))
          benchmark == cooling_benchmark(d)
      IN  [val |-> Div(total_cop, n),
           score |-> Max(0, Min(10000, Div(8000 * total_cop, n * benchmark))),
           err |-> DivZero(n) \/ DivZero(benchmark)]

\* abs(r.pue - target_pue) <= target_pue * 0.10, target in hundredths
WithinTarget(r, target_pue) == 10 * Abs(pue(r) - 100 * target_pue) <= 100 * target_pue

\* _score_availability over every reading, valid or not
score_availability_all_readings(d) ==
    LET target_pue == d.config.pue_target
        valid == d.energy_readings
        n == Len(valid)
    IN  IF n = 0 THEN [val |-> 0, score |-> 5000, err |-> FALSE]
        ELSE
          LET within(r) == WithinTarget(r, target_pue)
              within_count == Count(valid, within)
              score == IF 100 * within_count >= 95 * n THEN 10000
                       ELSE IF 100 * within_count < 80 * n THEN 0
                       ELSE Div((100 * within_count - 80 * n) * 10000, 15 * n)
          IN  [val |-> Div(within_count * 10000, n), score |-> score,
               err |-> DivZero(n)]

\* _score_availability: val in ten-thousandths
score_availability(d) ==
    LET target_pue == d.config.pue_target
        valid == valid_readings(d.energy_readings)
        n == Len(valid)
    IN  IF n = 0 THEN [val |-> 0, score |-> 5000, err |-> FALSE]
        ELSE
          LET within(r) == WithinTarget(r, target_pue)
              within_count == Count(valid, within)
              score == IF 100 * within_count >= 95 * n THEN 10000
                       ELSE IF 100 * within_count < 80 * n THEN 0
                       ELSE Div((100 * within_count - 80 * n) * 10000, 15 * n)
          IN  [val |-> Div(within_count * 10000, n), score |-> score,
               err |-> DivZero(n)]

\* _score_carbon without the clamp to [0, 100]
score_carbon_unclamped(d) ==
    LET carbon == d.config.carbon_intensity_gco2_per_kwh
    IN  [val |-> carbon, score |-> (500 - carbon) * 25, err |-> FALSE]

\* _score_carbon: val is the carbon intensity
score_carbon(d) ==
    LET carbon == d.config.carbon_intensity_gco2_per_kwh
    IN  [val |-> carbon, score |-> Clamp((500 - carbon) * 25, 0, 10000),
         err |-> FALSE]

\* BoxScore(...)
BoxScore(box_number, box_name, overall, sub_metrics, findings) ==
    [box_number |-> box_number, box_name |-> box_name, overall_score |-> overall,
     grade |-> GradeOf(overall), sub_metrics |-> sub_metrics, findings |-> findings]

\* A finding is kept as its kind; the interpolated numbers are left out.
Finding(cond, kind) == IF cond THEN <<kind>> ELSE <<>>

\* A box scorer's result: the BoxScore, and err iff the call raises, either
\* in a sub-metric scorer or when the BoxScore is validated
Scored(box, err) == [box |-> box, err |-> err \/ ~BoxScoreValid(box)]

\* The body of score_box1 once the six sub-metrics p, u, c, k, a, g are
\* computed
box1_of(d, p, u, c, k, a, g) ==
    LET findings ==
            Finding(p.val > 0, "avg_pue")
            \o Finding(p.val > 16000, "pue_exceeds_1_6")
            \o Finding(avg_cpu_utilization(d) < 3000, "cpu_critically_low")
            \o Finding(gpu_server_count(d) > 0 /\ avg_gpu_utilization(d) < 4000,
                       "gpu_under_utilized")
            \o Finding(10 * c.val > 15 * COST_BENCHMARK_PER_KWH, "cost_above_benchmark")
            \o Finding(k.val > 0 /\ k.val < cooling_finding_benchmark(d),
                       "cop_below_benchmark")
            \o Finding(a.val < 8500, "availability_low")
            \o Finding(g.val > 300, "carbon_above_average")
        sub_metrics == <<
            SubMetricScore("PUE Efficiency", p.val, p.score, BOX1_PUE_WEIGHT),
            SubMetricScore("Server Utilization", u.val, u.score, BOX1_UTILIZATION_WEIGHT),
            SubMetricScore("Cost Efficiency", c.val, c.score, BOX1_COST_WEIGHT),
            SubMetricScore("Cooling Performance", k.val, k.score, BOX1_COOLING_WEIGHT),
            SubMetricScore("Operational Availability", a.val, a.score,
                           BOX1_AVAILABILITY_WEIGHT),
            SubMetricScore("Carbon Intensity", g.val, g.score, BOX1_CARBON_WEIGHT) >>
        overall == RoundDiv(p.score * BOX1_PUE_WEIGHT
                            + u.score * BOX1_UTILIZATION_WEIGHT
                            + c.score * BOX1_COST_WEIGHT
                            + k.score * BOX1_COOLING_WEIGHT
                            + a.score * BOX1_AVAILABILITY_WEIGHT
                            + g.score * BOX1_CARBON_WEIGHT, 100)
    IN  Scored(BoxScore(1, "Current Operations", overall, sub_metrics, findings),
               p.err \/ u.err \/ c.err \/ k.err \/ a.err \/ g.err)

\* score_box1: the BoxScore in box, err iff the call raises
score_box1(d) ==
    box1_of(d, score_pue(d), score_utilization(d), score_cost(d),
            score_cooling(d), score_availability(d), score_carbon(d))

----------------------------------------------------------------------------
(* scoring/box2_forget.py *)

CurrentPowerWatts(s) == s.current_power_watts

\* _score_zombie with the empty-fleet guard dropped
score_zombie_unguarded(d) ==
    LET total == total_servers(d)
        zc == zombie_count(d)
    IN  [val |-> Div(zc * 10000, total),
         score |-> Max(0, Div(10000 * total - 50000 * zc, total)),
         findings |-> <<>>,
         err |-> DivZero(total)]

\* _score_zombie with the penalty 100 - zombie_pct * 400
score_zombie_slope_400(d) ==
    LET total == total_servers(d)
    IN  IF total = 0
        THEN [val |-> 0, score |-> 10000, findings |-> <<>>, err |-> FALSE]
        ELSE
          LET zc == zombie_count(d)
          IN  [val |-> Div(zc * 10000, total),
               score |-> Max(0, Div(10000 * total - 40000 * zc, total)),
               findings |-> IF zc > 0 THEN <<"zombies_detected">> ELSE <<>>,
               err |-> DivZero(total)]

\* _score_zombie: val in ten-thousandths
score_zombie(d) ==
    LET total == total_servers(d)
    IN  IF total = 0
        THEN [val |-> 0, score |-> 10000, findings |-> <<>>, err |-> FALSE]
        ELSE
          LET zc == zombie_count(d)
              zombie_servers == Filter(d.servers, IsFlaggedZombie)
              wasted_w == Sum(Map(zombie_servers, CurrentPowerWatts))
          IN  [val |-> Div(zc * 10000, total),
               score |-> Max(0, Div(10000 * total - 50000 * zc, total)),
               findings |-> IF zc > 0
                            THEN <<"zombies_detected">>
                                 \o Finding(wasted_w > 0, "zombie_power")
                            ELSE <<>>,
               err |-> DivZero(total)]

\* _score_overprovisioned with the empty-fleet guard dropped
score_overprovisioned_unguarded(d) ==
    LET total == total_servers(d)
        oc == overprovisioned_count(d)
    IN  [val |-> Div(oc * 10000, total),
         score |-> Max(0, Div(10000 * total - 40000 * oc, total)),
         findings |-> Finding(oc > 0, "overprovisioned_detected"),
         err |-> DivZero(total)]

\* _score_overprovisioned: val in ten-thousandths
score_overprovisioned(d) ==
    LET total == total_servers(d)
    IN  IF total = 0
        THEN [val |-> 0, score |-> 10000, findings |-> <<>>, err |-> FALSE]
        ELSE
          LET oc == overprovisioned_count(d)
          IN  [val |-> Div(oc * 10000, total),
               score |-> Max(0, Div(10000 * total - 40000 * oc, total)),
               findings |-> Finding(oc > 0, "overprovisioned_detected"),
               err |-> DivZero(total)]

PastUsefulLife(s) == s.age_months > USEFUL_LIFE_MONTHS

\* _score_legacy: val is the average age in hundredths of a month
score_legacy(d) ==
    LET total == total_servers(d)
    IN  IF total = 0
        THEN [val |-> 0, score |-> 10000, findings |-> <<>>, err |-> FALSE]
        ELSE
          LET past_warranty == Count(d.servers, is_past_warranty)
              past_useful == Count(d.servers, PastUsefulLife)
          IN  [val |-> avg_server_age_months(d),
               score |-> Max(0, Div(10000 * total - 15000 * past_warranty
                                    - 30000 * past_useful, total)),
               findings |-> Finding(past_warranty > 0, "past_warranty")
                            \o Finding(past_useful > 0, "past_useful_life"),
               err |-> DivZero(total)]

\* The COP benchmark _score_cooling_waste applies to one system
waste_benchmark(cs) ==
    IF cs.cooling_type = "liquid" THEN COP_BENCHMARK_LIQUID ELSE COP_BENCHMARK_AIR

\* is_overloaded with cs.load_pct >= 85.0
is_overloaded_from_85(cs) == load_pct(cs) >= 8500

is_overloaded(cs) == load_pct(cs) > 8500
is_inefficient(cs) == cs.cop < waste_benchmark(cs)
IsWasteful(cs) == is_overloaded(cs) \/ is_inefficient(cs)

RECURSIVE CoolingWasteFindings(_, _)
\* the findings of the loop over the cooling systems from index i on
CoolingWasteFindings(systems, i) ==
    IF i > Len(systems) THEN <<>>
    ELSE Finding(is_overloaded(systems[i]), "cooling_overloaded")
         \o Finding(is_inefficient(systems[i]), "cooling_inefficient")
         \o CoolingWasteFindings(systems, i + 1)

\* _score_cooling_waste: val in ten-thousandths
score_cooling_waste(d) ==
    LET n == Len(d.cooling_systems)
    IN  IF n = 0
        THEN [val |-> 0, score |-> 10000, findings |-> <<>>, err |-> FALSE]
        ELSE
          LET waste_count == Count(d.cooling_systems, IsWasteful)
          IN  [val |-> Div(waste_count * 10000, n),
               score |-> Max(0, Div(10000 * n - 20000 * waste_count, n)),
               findings |-> CoolingWasteFindings(d.cooling_systems, 1),
               err |-> DivZero(n)]

IsStranded(r) == power_utilization_pct(r) < 3000

\* _score_stranded: val in ten-thousandths
score_stranded(d) ==
    LET n == Len(d.racks)
    IN  IF n = 0
        THEN [val |-> 0, score |-> 10000, findings |-> <<>>, err |-> FALSE]
        ELSE
          LET stranded_count == Count(d.racks, IsStranded)
          IN  [val |-> Div(stranded_count * 10000, n),
               score |-> Max(0, Div(10000 * n - 30000 * stranded_count, n)),
               findings |-> IF stranded_count > 0
                            THEN <<"racks_stranded", "stranded_capacity">>
                            ELSE <<>>,
               err |-> DivZero(n)]

\* The body of score_box2 with the stranded-capacity term left out of the
\* weighted sum
box2_of_without_stranded(z, o, l, c, s) ==
    LET sub_metrics == <<
            SubMetricScore("Zombie Servers", z.val, z.score, BOX2_ZOMBIE_WEIGHT),
            SubMetricScore("Over-Provisioned Resources", o.val, o.score,
                           BOX2_OVERPROV_WEIGHT),
            SubMetricScore("Legacy Hardware", l.val, l.score, BOX2_LEGACY_WEIGHT),
            SubMetricScore("Cooling Waste", c.val, c.score, BOX2_COOLING_WASTE_WEIGHT),
            SubMetricScore("Stranded Capacity", s.val, s.score, BOX2_STRANDED_WEIGHT) >>
        overall == RoundDiv(z.score * BOX2_ZOMBIE_WEIGHT
                            + o.score * BOX2_OVERPROV_WEIGHT
                            + l.score * BOX2_LEGACY_WEIGHT
                            + c.score * BOX2_COOLING_WASTE_WEIGHT, 100)
    IN  Scored(BoxScore(2, "Legacy & Waste", overall, sub_metrics,
                        z.findings \o o.findings \o l.findings \o c.findings
                        \o s.findings),
               z.err \/ o.err \/ l.err \/ c.err \/ s.err)

\* The body of score_box2 once the five sub-metrics are computed
box2_of(z, o, l, c, s) ==
    LET sub_metrics == <<
            SubMetricScore("Zombie Servers", z.val, z.score, BOX2_ZOMBIE_WEIGHT),
            SubMetricScore("Over-Provisioned Resources", o.val, o.score,
                           BOX2_OVERPROV_WEIGHT),
            SubMetricScore("Legacy Hardware", l.val, l.score, BOX2_LEGACY_WEIGHT),
            SubMetricScore("Cooling Waste", c.val, c.score, BOX2_COOLING_WASTE_WEIGHT),
            SubMetricScore("Stranded Capacity", s.val, s.score, BOX2_STRANDED_WEIGHT) >>
        overall == RoundDiv(z.score * BOX2_ZOMBIE_WEIGHT
                            + o.score * BOX2_OVERPROV_WEIGHT
                            + l.score * BOX2_LEGACY_WEIGHT
                            + c.score * BOX2_COOLING_WASTE_WEIGHT
                            + s.score * BOX2_STRANDED_WEIGHT, 100)
    IN  Scored(BoxScore(2, "Legacy & Waste", overall, sub_metrics,
                        z.findings \o o.findings \o l.findings \o c.findings
                        \o s.findings),
               z.err \/ o.err \/ l.err \/ c.err \/ s.err)

\* score_box2
score_box2(d) ==
    box2_of(score_zombie(d), score_overprovisioned(d), score_legacy(d),
            score_cooling_waste(d), score_stranded(d))

----------------------------------------------------------------------------
(* scoring/box3_future.py *)

IsSortedByTimestamp(s) ==
    \A i \in 1..(Len(s) - 1) : s[i].timestamp <= s[i + 1].timestamp

\* sorted(readings, key=lambda r: r.timestamp): a new list, stable.  A list
\* already in order is returned as it is; otherwise every element goes to
\* the position given by the number of elements that sort before it.
sorted_by_timestamp(s) ==
    IF IsSortedByTimestamp(s) THEN s
    ELSE
      LET n == Len(s)
          rank(i) == Cardinality({j \in 1..n :
                         \/ s[j].timestamp < s[i].timestamp
                         \/ (s[j].timestamp = s[i].timestamp /\ j <= i)})
          ranks == SubSeq([i \in 1..n |-> rank(i)], 1, n)
          at == SubSeq([k \in 1..n |-> CHOOSE i \in 1..n : ranks[i] = k], 1, n)
      IN  SubSeq([k \in 1..n |-> s[at[k]]], 1, n)

\* dc.energy_readings after an in-place dc.energy_readings.sort(key=...)
energy_readings_after_sort_in_place(readings) == sorted_by_timestamp(readings)

\* dc.energy_readings after readings = sorted(dc.energy_readings, key=...) in
\* _score_forecast and _score_trend: sorted() builds a new list and binds it
\* to a local name, so the snapshot's own list keeps its elements and order
energy_readings_after_sorted(readings) == readings

\* The tail of _score_forecast: months_to_capacity is num / den before the
\* clamp max(0.0, min(120.0, months_to_capacity)); err iff the call raises
forecast_result(num, den, err) ==
    LET over == num > 120 * den
        under == num < 0
        MonthsAbove(m) == over \/ (~under /\ num > m * den)
    IN  [val |-> IF over THEN 1200 ELSE IF under THEN 0 ELSE MulDiv(num, 10, den),
         score |-> IF MonthsAbove(24) THEN 10000
                   ELSE IF MonthsAbove(12) THEN 7000
                   ELSE IF MonthsAbove(6) THEN 4000
                   ELSE 1000,
         findings |-> <<"power_utilization", "months_to_capacity">>
                      \o Finding(~over /\ (under \/ num < 12 * den),
                                 "capacity_critical"),
         err |-> err \/ DivZero(den)]

\* The trend branch with the growth taken over all n hours
forecast_trend_over_n(power, n, total_capacity_kw) ==
    LET early_sum == SumRange(power, 1, 24)
        late_sum == SumRange(power, n - 23, n)
        hours_span == Max(1, n)
    IN  IF late_sum > early_sum
        THEN forecast_result((24 * total_capacity_kw - late_sum) * hours_span,
                             720 * (late_sum - early_sum), DivZero(hours_span))
        ELSE forecast_result(120, 1, DivZero(hours_span))

\* The trend branch of _score_forecast (at least 48 readings), on the
\* power values in timestamp order
forecast_trend(power, n, total_capacity_kw) ==
    LET early_sum == SumRange(power, 1, 24)
        late_sum == SumRange(power, n - 23, n)
        hours_span == Max(1, n - 24)
    IN  IF late_sum > early_sum
        THEN forecast_result((24 * total_capacity_kw - late_sum) * hours_span,
                             720 * (late_sum - early_sum), DivZero(hours_span))
        ELSE forecast_result(120, 1, DivZero(hours_span))

\* The headroom branch of _score_forecast (fewer than 48 readings)
forecast_headroom(power, n, total_capacity_kw) ==
    LET \* recent = readings[-24:] if len(readings) >= 24 else readings
        recent_len == IF n >= 24 THEN 24 ELSE n
        capacity == total_capacity_kw * recent_len
        headroom == capacity - SumRange(power, n - recent_len + 1, n)
    IN  forecast_result(IF 2 * headroom > capacity THEN 36
                        ELSE IF 4 * headroom > capacity THEN 18
                        ELSE 6,
                        1, DivZero(recent_len) \/ DivZero(total_capacity_kw))

\* The body of _score_forecast on the readings in timestamp order
forecast_of(readings, total_capacity_kw) ==
    IF Len(readings) >= 48
    THEN forecast_trend(Map(readings, TotalPower), Len(readings), total_capacity_kw)
    ELSE forecast_headroom(Map(readings, TotalPower), Len(readings),
                           total_capacity_kw)

\* _score_forecast: val is months_to_capacity in tenths
score_forecast(d) ==
    IF Len(d.energy_readings) = 0 \/ d.config.total_power_capacity_mw <= 0
    THEN [val |-> 0, score |-> 5000, findings |-> <<"insufficient_data">>,
          err |-> FALSE]
    ELSE forecast_of(sorted_by_timestamp(d.energy_readings),
                     d.config.total_power_capacity_mw)

InRefreshWindow(s) ==
    REFRESH_WINDOW_MIN <= s.age_months /\ s.age_months <= REFRESH_WINDOW_MAX
PastRefreshWindow(s) == s.age_months > REFRESH_WINDOW_MAX

\* _score_refresh: val in ten-thousandths
score_refresh(d) ==
    LET total == total_servers(d)
    IN  IF total = 0
        THEN [val |-> 0, score |-> 5000, findings |-> <<>>, err |-> FALSE]
        ELSE
          LET in_window == Count(d.servers, InRefreshWindow)
              too_old == Count(d.servers, PastRefreshWindow)
              \* score * total, in hundredths, after the old-age penalty
              raw == IF too_old > 0
                     THEN Max(0, 10000 * in_window - 5000 * too_old)
                     ELSE 10000 * in_window
          IN  [val |-> Div(in_window * 10000, total),
               score |-> Clamp(Div(raw, total), 0, 10000),
               findings |-> Finding(too_old > 0, "past_refresh_window")
                            \o Finding(in_window > 0, "in_refresh_window"),
               err |-> DivZero(total)]

IsSchedulable(w) == w.is_schedulable
PowerConsumptionKw(w) == w.power_consumption_kw

\* _score_scheduling: val in ten-thousandths
score_scheduling(d) ==
    IF Len(d.workloads) = 0
    THEN [val |-> 0, score |-> 5000, findings |-> <<"no_workload_data">>,
          err |-> FALSE]
    ELSE
      LET total_workloads == Len(d.workloads)
          schedulable == Filter(d.workloads, IsSchedulable)
          schedulable_count == Len(schedulable)
          schedulable_power_kw == Sum(Map(schedulable, PowerConsumptionKw))
          total_power_kw == Sum(Map(d.workloads, PowerConsumptionKw))
          \* schedulable_pct * 60 + schedulable_power_pct * 40, in hundredths
          score == IF total_power_kw > 0
                   THEN Div(6000 * schedulable_count * total_power_kw
                            + 4000 * schedulable_power_kw * total_workloads,
                            total_workloads * total_power_kw)
                   ELSE Div(6000 * schedulable_count, total_workloads)
      IN  [val |-> Div(schedulable_count * 10000, total_workloads),
           score |-> Min(10000, score),
           findings |-> IF schedulable_count > 0
                        THEN <<"schedulable_workloads", "scheduling_savings">>
                        ELSE <<"no_schedulable_workloads">>,
           err |-> DivZero(total_workloads)]

\* _score_renewable with the PPA bonus granted at any renewable fraction
score_renewable_always_bonus(d) ==
    LET renewable == d.config.renewable_percentage
        score == IF d.config.ppa_available
                 THEN Min(10000, renewable * 100 + 1000)
                 ELSE renewable * 100
    IN  [val |-> renewable * 100, score |-> Min(10000, score),
         findings |-> <<>>, err |-> FALSE]

\* _score_renewable with the PPA bonus below a renewable fraction of 0.35
score_renewable_bonus_below_35(d) ==
    LET renewable == d.config.renewable_percentage
        bonus == d.config.ppa_available /\ renewable < 35
        score == IF bonus THEN Min(10000, renewable * 100 + 1000)
                 ELSE renewable * 100
    IN  [val |-> renewable * 100, score |-> Min(10000, score),
         findings |-> <<>>, err |-> FALSE]

\* _score_renewable: val in ten-thousandths
score_renewable(d) ==
    LET renewable == d.config.renewable_percentage
        bonus == d.config.ppa_available /\ renewable < 50
        score == IF bonus THEN Min(10000, renewable * 100 + 1000)
                 ELSE renewable * 100
    IN  [val |-> renewable * 100, score |-> Min(10000, score),
         findings |-> Finding(bonus, "ppa_untapped")
                      \o (IF renewable >= 80 THEN <<"renewable_excellent">>
                          ELSE IF renewable >= 50 THEN <<"renewable_moderate">>
                          ELSE <<"renewable_low">>),
         err |-> FALSE]

\* The body of _score_trend on the PUE values of the valid readings in
\* timestamp order
trend_of(pues, n) ==
    IF n < 48
    THEN [val |-> 0, score |-> 6000, findings |-> <<"insufficient_pue_data">>,
          err |-> FALSE]
    ELSE
      LET window == Min(168, n \div 3)
          \* delta = change / window; 0.02 is 200
          change == SumRange(pues, n - window + 1, n) - SumRange(pues, 1, window)
          improving == change < -200 * window
          degrading == change > 200 * window
      IN  [val |-> Div(change, window),
           score |-> IF improving THEN 10000
                     ELSE IF degrading THEN 2000 ELSE 6000,
           findings |-> IF improving THEN <<"pue_improving">>
                        ELSE IF degrading THEN <<"pue_degrading">>
                        ELSE <<"pue_stable">>,
           err |-> DivZero(window)]

\* The list of r.pue for the readings with r.pue > 0
valid_pues(readings) == Map(valid_readings(readings), pue)

\* _score_trend: val is the PUE delta in ten-thousandths
score_trend(d) ==
    trend_of(valid_pues(sorted_by_timestamp(d.energy_readings)),
             Len(valid_readings(d.energy_readings)))

\* The body of score_box3 once the five sub-metrics are computed
box3_of(f, r, s, e, t) ==
    LET sub_metrics == <<
            SubMetricScore("Forecast Readiness", f.val, f.score, BOX3_FORECAST_WEIGHT),
            SubMetricScore("Hardware Refresh", r.val, r.score, BOX3_REFRESH_WEIGHT),
            SubMetricScore("Scheduling Optimization", s.val, s.score,
                           BOX3_SCHEDULING_WEIGHT),
            SubMetricScore("Renewable Energy", e.val, e.score, BOX3_RENEWABLE_WEIGHT),
            SubMetricScore("Efficiency Trend", t.val, t.score, BOX3_TREND_WEIGHT) >>
        overall == RoundDiv(f.score * BOX3_FORECAST_WEIGHT
                            + r.score * BOX3_REFRESH_WEIGHT
                            + s.score * BOX3_SCHEDULING_WEIGHT
                            + e.score * BOX3_RENEWABLE_WEIGHT
                            + t.score * BOX3_TREND_WEIGHT, 100)
    IN  Scored(BoxScore(3, "Future Readiness", overall, sub_metrics,
                        f.findings \o r.findings \o s.findings \o e.findings
                        \o t.findings),
               f.err \/ r.err \/ s.err \/ e.err \/ t.err)

\* score_box3
score_box3(d) ==
    box3_of(score_forecast(d), score_refresh(d), score_scheduling(d),
            score_renewable(d), score_trend(d))

----------------------------------------------------------------------------
(* scoring/engine.py *)

\* ScoringEngine.score with the box weights of Box 1 and Box 2 swapped
overall_score_swapped(b1, b2, b3) ==
    RoundDiv(b1 * BOX2_WEIGHT + b2 * BOX1_WEIGHT + b3 * BOX3_WEIGHT, 100)

\* The weighted average of ScoringEngine.score, rounded to 2 decimals
overall_score(b1, b2, b3) ==
    RoundDiv(b1 * BOX1_WEIGHT + b2 * BOX2_WEIGHT + b3 * BOX3_WEIGHT, 100)

\* The result of ScoringEngine.score from the three box results
engine_result(b1, b2, b3, overall) ==
    [scores |-> [box1 |-> b1.box, box2 |-> b2.box, box3 |-> b3.box,
                 overall |-> overall, grade |-> GradeOf(overall)],
     err |-> b1.err \/ b2.err \/ b3.err]

\* The body of ScoringEngine.score once the three boxes are scored
engine_combine(b1, b2, b3) ==
    engine_result(b1, b2, b3,
                  overall_score(b1.box.overall_score, b2.box.overall_score,
                                b3.box.overall_score))

\* ScoringEngine.score
ScoringEngine_score(d) ==
    engine_combine(score_box1(d), score_box2(d), score_box3(d))

----------------------------------------------------------------------------
(* analysis/zombie_detector.py, analysis/overprovisioning.py,
   analysis/hardware_lifecycle.py *)

\* _is_zombie
_is_zombie(s) ==
    s.is_zombie \/ (s.cpu_utilization < 5 /\ ~s.is_overprovisioned)

\* One entry of detect_zombies: kWh in hundredths, dollars in cents, each
\* rounded from the unrounded product
zombie_entry(s, cost_per_kwh) ==
    [power_watts |-> s.current_power_watts,
     monthly_waste_kwh |-> s.current_power_watts * 72,
     monthly_waste_dollars |->
         MulDiv(s.current_power_watts * 72, cost_per_kwh, 1000)]

\* detect_zombies
detect_zombies(d) ==
    LET zombies == Filter(d.servers, _is_zombie)
    IN  [i \in 1..Len(zombies) |->
            zombie_entry(zombies[i], d.config.energy_cost_per_kwh)]

\* _is_overprovisioned
_is_overprovisioned(s) ==
    s.is_overprovisioned \/ (s.memory_utilization > 70 /\ s.cpu_utilization < 20)

\* One entry of detect_overprovisioned without the floor
\* max(potential_savings, 0.0)
overprovisioned_entry_unfloored(s) ==
    [current_power |-> s.current_power_watts,
     potential_savings_watts |-> 100 * s.current_power_watts - 30 * s.tdp_watts]

\* One entry of detect_overprovisioned: watts in hundredths
overprovisioned_entry(s) ==
    [current_power |-> s.current_power_watts,
     potential_savings_watts |->
         Max(100 * s.current_power_watts - 30 * s.tdp_watts, 0)]

\* detect_overprovisioned
detect_overprovisioned(d) ==
    LET found == Filter(d.servers, _is_overprovisioned)
    IN  [i \in 1..Len(found) |-> overprovisioned_entry(found[i])]

_REFRESH_CANDIDATE_MONTHS == 48

IsRefreshCandidate(s) ==
    s.age_months > _REFRESH_CANDIDATE_MONTHS \/ is_past_warranty(s)

\* analyze_hardware_lifecycle: percentages and kWh in hundredths
analyze_hardware_lifecycle(d) ==
    LET total == Len(d.servers)
        candidates == Filter(d.servers, IsRefreshCandidate)
        refresh_candidate_power_watts == Sum(Map(candidates, CurrentPowerWatts))
        past_warranty_count == Count(d.servers, is_past_warranty)
    IN  IF total = 0
        THEN [past_warranty_count |-> 0, past_warranty_pct |-> 0,
              past_useful_life_count |-> 0, refresh_candidates |-> 0,
              estimated_refresh_savings_kwh |-> 0, err |-> FALSE]
        ELSE [past_warranty_count |-> past_warranty_count,
              past_warranty_pct |-> Div(past_warranty_count * 10000, total),
              past_useful_life_count |-> Count(d.servers, PastUsefulLife),
              refresh_candidates |-> Len(candidates),
              \* watts * 0.30 * 24 * 30 / 1000
              estimated_refresh_savings_kwh |->
                  RoundDiv(refresh_candidate_power_watts * 216, 10),
              err |-> DivZero(total)]

----------------------------------------------------------------------------
(* analysis/cooling_analyzer.py, analysis/workload_optimizer.py,
   analysis/renewable_advisor.py *)

\* _COP_BENCHMARKS.get(cooling_type, _COP_BENCHMARKS["air"]), in hundredths
_COP_BENCHMARKS(cooling_type) ==
    IF cooling_type = "liquid" THEN 600
    ELSE IF cooling_type = "hybrid" THEN 450
    ELSE 350

_OVERLOAD_THRESHOLD == 85

\* The least common multiple of the three benchmark COPs, the denominator
\* under which the per-system savings are added exactly
CopCommonMultiple == 12600

IsOverloadedSystem(cs) == load_pct(cs) > _OVERLOAD_THRESHOLD * 100
IsUnderperforming(cs) == cs.cop < _COP_BENCHMARKS(cs.cooling_type)

\* current_load_kw * (1 - cop / benchmark_cop), in 1/12600 kW
SavedKw(cs) ==
    LET benchmark_cop == _COP_BENCHMARKS(cs.cooling_type)
    IN  Max(cs.current_load_kw * (benchmark_cop - cs.cop)
            * (CopCommonMultiple \div benchmark_cop), 0)

\* analyze_cooling: COP and kWh in hundredths
analyze_cooling(d) ==
    LET systems == d.cooling_systems
        underperforming == Filter(systems, IsUnderperforming)
        improvement_potential_kw == Sum(Map(underperforming, SavedKw))
    IN  IF Len(systems) = 0
        THEN [avg_cop |-> 0, overloaded_systems |-> 0,
              underperforming_systems |-> 0,
              improvement_potential_kwh |-> 0, err |-> FALSE]
        ELSE [avg_cop |-> Div(Sum(Map(systems, Cop)), Len(systems)),
              overloaded_systems |-> Count(systems, IsOverloadedSystem),
              underperforming_systems |-> Len(underperforming),
              improvement_potential_kwh |->
                  MulDiv(improvement_potential_kw, 72000, CopCommonMultiple),
              err |-> DivZero(Len(systems))]

\* analyze_workload_scheduling: percentages in hundredths, dollars in cents
analyze_workload_scheduling(d) ==
    LET total_workloads == Len(d.workloads)
        schedulable == Filter(d.workloads, IsSchedulable)
        schedulable_power_kw == Sum(Map(schedulable, PowerConsumptionKw))
    IN  IF total_workloads = 0
        THEN [total_workloads |-> 0, schedulable_count |-> 0,
              schedulable_pct |-> 0, schedulable_power_kw |-> 0,
              estimated_monthly_savings_dollars |-> 0, err |-> FALSE]
        ELSE [total_workloads |-> total_workloads,
              schedulable_count |-> Len(schedulable),
              schedulable_pct |-> Div(Len(schedulable) * 10000, total_workloads),
              schedulable_power_kw |-> schedulable_power_kw,
              \* kW * 24 * 30 * cost * 0.15
              estimated_monthly_savings_dollars |->
                  MulDiv(schedulable_power_kw * 108,
                         d.config.energy_cost_per_kwh, 10),
              err |-> DivZero(total_workloads)]

\* analyze_renewable_opportunity: the opportunity score in tenths, tons in
\* hundredths, the cost impact in cents
analyze_renewable_opportunity(d) ==
    LET renewable == d.config.renewable_percentage
        \* non_renewable_kwh * 100
        non_renewable == (total_energy_kwh(d) \div 100) * (100 - renewable)
        base_score == IF d.config.ppa_available
                      THEN Min((100 - renewable) * 10 + 100, 1000)
                      ELSE (100 - renewable) * 10
        cost_impact == IF d.config.ppa_available THEN -RoundDiv(non_renewable, 100)
                       ELSE IF renewable < 50 THEN RoundDiv(3 * non_renewable, 100)
                       ELSE RoundDiv(15 * non_renewable, 1000)
    IN  [current_renewable_pct |-> renewable * 100,
         ppa_available |-> d.config.ppa_available,
         potential_carbon_reduction_tons_monthly |->
             MulDiv(non_renewable, d.config.carbon_intensity_gco2_per_kwh, 1000000),
         renewable_opportunity_score |-> base_score,
         estimated_cost_impact_monthly |-> cost_impact]

----------------------------------------------------------------------------
(* analysis/cost_projector.py *)

week_hours == 168

\* The scale of the fixed-point growth factor (1 + monthly_growth_rate) ** month
FactorScale == 1000000

\* round(a * b / c) for c > 0 and any signs of a and b
SignedMulDiv(a, b, c) ==
    IF (a < 0) = (b < 0) THEN MulDivNat(Abs(a), Abs(b), c)
    ELSE -MulDivNat(Abs(a), Abs(b), c)

RECURSIVE GrowthFactor(_, _, _)
\* (p / q) ** month, scaled by FactorScale
GrowthFactor(p, q, month) ==
    IF month = 0 THEN FactorScale
    ELSE SignedMulDiv(GrowthFactor(p, q, month - 1), p, q)

RECURSIVE Compounded(_, _, _, _)
\* sum(current_monthly * (p / q) ** m for m in range(months))
Compounded(current_monthly, p, q, months) ==
    IF months = 0 THEN 0
    ELSE Compounded(current_monthly, p, q, months - 1)
         + SignedMulDiv(current_monthly, GrowthFactor(p, q, months - 1),
                        FactorScale)

\* project_costs: dollars in cents, growth_rate_pct in hundredths of a
\* percent.  The monthly growth rate is the fraction growth_num / growth_den.
project_costs(d) ==
    LET current_monthly == total_cost(d)
        readings == d.energy_readings
        n == Len(readings)
        power == Map(readings, TotalPower)
        first_sum == SumRange(power, 1, week_hours)
        last_sum == SumRange(power, n - week_hours + 1, n)
        gap_hours == n - week_hours
        trended == n >= 2 * week_hours /\ first_sum > 0
        growth_num == IF trended THEN (last_sum - first_sum) * 720 ELSE 0
        growth_den == IF trended THEN first_sum * gap_hours ELSE 1
    IN  [current_monthly |-> current_monthly,
         annual_projected |-> current_monthly * 12,
         growth_rate_pct |-> SignedMulDiv(growth_num, 10000, growth_den),
         projected_12mo_cost |->
             IF growth_num # 0
             THEN Compounded(current_monthly, growth_den + growth_num,
                             growth_den, 12)
             ELSE current_monthly * 12,
         cost_per_server_monthly |->
             IF total_servers(d) > 0 THEN RoundDiv(current_monthly, total_servers(d))
             ELSE 0,
         err |-> (n >= 2 * week_hours /\ DivZero(week_hours))
                 \/ (total_servers(d) > 0 /\ DivZero(total_servers(d)))]

----------------------------------------------------------------------------
(* recommendations/impact_calculator.py: each result is
   <<monthly_savings_dollars, monthly_energy_savings_kwh>>, in cents and in
   hundredths of a kWh *)

MonthlyWasteKwh(z) == z.monthly_waste_kwh
MonthlyWasteDollars(z) == z.monthly_waste_dollars
PotentialSavingsWatts(o) == o.potential_savings_watts

\* calculate_zombie_impact with the two results in the wrong order
calculate_zombie_impact_swapped(zombie_data, dc_config) ==
    << Sum(Map(zombie_data, MonthlyWasteKwh)),
       Sum(Map(zombie_data, MonthlyWasteDollars)) >>

\* calculate_zombie_impact
calculate_zombie_impact(zombie_data, dc_config) ==
    << Sum(Map(zombie_data, MonthlyWasteDollars)),
       Sum(Map(zombie_data, MonthlyWasteKwh)) >>

\* calculate_rightsizing_impact
calculate_rightsizing_impact(overprov_data, dc_config) ==
    LET total_savings_watts == Sum(Map(overprov_data, PotentialSavingsWatts))
    IN  << MulDiv(total_savings_watts * 72, dc_config.energy_cost_per_kwh, 100000),
           RoundDiv(total_savings_watts * 72, 100) >>

\* calculate_scheduling_impact
calculate_scheduling_impact(scheduling_data) ==
    << scheduling_data.estimated_monthly_savings_dollars,
       scheduling_data.schedulable_power_kw * 10800 >>

\* calculate_refresh_impact
calculate_refresh_impact(lifecycle_data, dc_config) ==
    << MulDiv(lifecycle_data.estimated_refresh_savings_kwh,
              dc_config.energy_cost_per_kwh, 1000),
       lifecycle_data.estimated_refresh_savings_kwh >>

\* calculate_cooling_impact
calculate_cooling_impact(cooling_data, dc_config) ==
    << MulDiv(cooling_data.improvement_potential_kwh,
              dc_config.energy_cost_per_kwh, 1000),
       cooling_data.improvement_potential_kwh >>

\* calculate_renewable_impact counting a premium as savings too
calculate_renewable_impact_unsigned(renewable_data) ==
    << Abs(renewable_data.estimated_cost_impact_monthly),
       renewable_data.potential_carbon_reduction_tons_monthly * 2000 >>

\* calculate_renewable_impact
calculate_renewable_impact(renewable_data) ==
    << IF renewable_data.estimated_cost_impact_monthly < 0
       THEN Abs(renewable_data.estimated_cost_impact_monthly) ELSE 0,
       renewable_data.potential_carbon_reduction_tons_monthly * 2000 >>

----------------------------------------------------------------------------
(* recommendations/templates.py *)

ZOMBIE_DECOMMISSION ==
    [title |-> "Decommission Zombie Servers", box_number |-> 2,
     effort |-> "low", impact |-> "high"]
OVERPROVISIONED_RIGHTSIZING ==
    [title |-> "Rightsize Over-Provisioned Servers", box_number |-> 2,
     effort |-> "medium", impact |-> "medium"]
LEGACY_HARDWARE_REFRESH ==
    [title |-> "Refresh Legacy Hardware", box_number |-> 2,
     effort |-> "high", impact |-> "high"]
COOLING_UPGRADE ==
    [title |-> "Upgrade Underperforming Cooling Systems", box_number |-> 1,
     effort |-> "high", impact |-> "high"]
WORKLOAD_SCHEDULING ==
    [title |-> "Optimize Workload Scheduling", box_number |-> 3,
     effort |-> "low", impact |-> "medium"]
RENEWABLE_ENERGY ==
    [title |-> "Increase Renewable Energy Adoption", box_number |-> 3,
     effort |-> "medium", impact |-> "high"]
\* The PUE template carrying the title of the cooling template
PUE_IMPROVEMENT_titled_as_cooling ==
    [title |-> COOLING_UPGRADE.title, box_number |-> 1,
     effort |-> "medium", impact |-> "high"]
PUE_IMPROVEMENT ==
    [title |-> "Improve Power Usage Effectiveness (PUE)", box_number |-> 1,
     effort |-> "medium", impact |-> "high"]
CAPACITY_PLANNING ==
    [title |-> "Implement Proactive Capacity Planning", box_number |-> 3,
     effort |-> "medium", impact |-> "medium"]

----------------------------------------------------------------------------
(* recommendations/engine.py *)

_MAX_RECOMMENDATIONS == 15

\* candidates.append({...}) without the test of the triggering condition
candidate_untriggered(triggered, template, amounts) ==
    << [title |-> template.title, box_number |-> template.box_number,
        effort |-> template.effort, impact |-> template.impact,
        monthly_savings_dollars |-> amounts[1],
        monthly_energy_savings_kwh |-> amounts[2]] >>

\* if triggered: candidates.append({...}), dropping a candidate whose
\* savings are both zero
candidate_if_nonzero(triggered, template, amounts) ==
    IF triggered /\ (amounts[1] # 0 \/ amounts[2] # 0)
    THEN << [title |-> template.title, box_number |-> template.box_number,
             effort |-> template.effort, impact |-> template.impact,
             monthly_savings_dollars |-> amounts[1],
             monthly_energy_savings_kwh |-> amounts[2]] >>
    ELSE << >>

\* if triggered: candidates.append({...}); amounts is the pair
\* <<dollars, kwh>>.  The description text is a formatting of the same
\* numbers and is left out.
candidate(triggered, template, amounts) ==
    IF triggered
    THEN << [title |-> template.title, box_number |-> template.box_number,
             effort |-> template.effort, impact |-> template.impact,
             monthly_savings_dollars |-> amounts[1],
             monthly_energy_savings_kwh |-> amounts[2]] >>
    ELSE << >>

\* The PUE improvement amounts of generate
pue_improvement_amounts(d) ==
    LET pue_gap == avg_pue(d) - 100 * d.config.pue_target
        readings == d.energy_readings
        it_power_kw == IF Len(readings) > 0
                       THEN readings[Len(readings)].it_equipment_power_kw ELSE 0
    IN  << MulDiv(it_power_kw * pue_gap * 72, d.config.energy_cost_per_kwh, 10000),
           RoundDiv(it_power_kw * pue_gap * 72, 10) >>

\* The capacity planning amounts of generate
capacity_planning_amounts(d, cost_data) ==
    LET \* (projected - straight) * 0.5 / 12 is excess / 24 cents
        excess == cost_data.projected_12mo_cost - cost_data.annual_projected
        cost == d.config.energy_cost_per_kwh
    IN  << Max(RoundDiv(excess, 24), 0),
           IF cost > 0 THEN Max(SignedMulDiv(excess, 1000, 24 * cost), 0) ELSE 0 >>

\* The candidates list of generate before it is sorted, from the results of
\* the analysis modules
candidates_of(d, zombie_data, overprov_data, lifecycle_data, cooling_data, scheduling_data, renewable_data, cost_data) ==
    LET config == d.config
    IN  [list |->
            candidate(Len(zombie_data) > 0, ZOMBIE_DECOMMISSION,
                      calculate_zombie_impact(zombie_data, config))
            \o candidate(Len(overprov_data) > 0, OVERPROVISIONED_RIGHTSIZING,
                         calculate_rightsizing_impact(overprov_data, config))
            \o candidate(lifecycle_data.refresh_candidates > 0,
                         LEGACY_HARDWARE_REFRESH,
                         calculate_refresh_impact(lifecycle_data, config))
            \o candidate(cooling_data.underperforming_systems > 0
                         \/ cooling_data.overloaded_systems > 0,
                         COOLING_UPGRADE,
                         calculate_cooling_impact(cooling_data, config))
            \o candidate(scheduling_data.schedulable_count > 0,
                         WORKLOAD_SCHEDULING,
                         calculate_scheduling_impact(scheduling_data))
            \o candidate(renewable_data.renewable_opportunity_score > 200,
                         RENEWABLE_ENERGY,
                         calculate_renewable_impact(renewable_data))
            \o candidate(avg_pue(d) > 100 * config.pue_target, PUE_IMPROVEMENT,
                         pue_improvement_amounts(d))
            \o candidate(cost_data.growth_rate_pct > 100, CAPACITY_PLANNING,
                         capacity_planning_amounts(d, cost_data)),
         err |-> lifecycle_data.err \/ cooling_data.err \/ scheduling_data.err
                 \/ cost_data.err
                 \/ (cost_data.growth_rate_pct > 100 /\ config.energy_cost_per_kwh > 0
                     /\ DivZero(config.energy_cost_per_kwh))]

\* The first part of generate: run the analysis modules and collect the
\* candidates
generate_candidates(d) ==
    candidates_of(d, detect_zombies(d), detect_overprovisioned(d),
                  analyze_hardware_lifecycle(d), analyze_cooling(d),
                  analyze_workload_scheduling(d),
                  analyze_renewable_opportunity(d), project_costs(d))

\* A descending sort that puts candidates with equal dollars in the reverse
\* of their order of insertion
sorted_candidates_ties_reversed(candidates) ==
    LET n == Len(candidates)
        before(j, i) ==
            \/ candidates[j].monthly_savings_dollars
                 > candidates[i].monthly_savings_dollars
            \/ /\ candidates[j].monthly_savings_dollars
                    = candidates[i].monthly_savings_dollars
               /\ j >= i
        rank(i) == Cardinality({j \in 1..n : before(j, i)})
    IN  [k \in 1..n |-> candidates[CHOOSE i \in 1..n : rank(i) = k]]

\* candidates.sort(key=monthly_savings_dollars, reverse=True): the sort is
\* stable, so candidates with equal dollars keep their order of insertion
sorted_candidates(candidates) ==
    LET n == Len(candidates)
        before(j, i) ==
            \/ candidates[j].monthly_savings_dollars
                 > candidates[i].monthly_savings_dollars
            \/ /\ candidates[j].monthly_savings_dollars
                    = candidates[i].monthly_savings_dollars
               /\ j <= i
        rank(i) == Cardinality({j \in 1..n : before(j, i)})
    IN  [k \in 1..n |-> candidates[CHOOSE i \in 1..n : rank(i) = k]]

\* enumerate(candidates[:_MAX_RECOMMENDATIONS], start=0)
ranked_from_zero(sorted) ==
    [k \in 1..Min(Len(sorted), _MAX_RECOMMENDATIONS) |->
        [rank |-> k - 1] @@ sorted[k]]

\* The Recommendation objects built from
\* enumerate(candidates[:_MAX_RECOMMENDATIONS], start=1)
ranked(sorted) ==
    [k \in 1..Min(Len(sorted), _MAX_RECOMMENDATIONS) |->
        [rank |-> k] @@ sorted[k]]

\* Whether building the Recommendation objects raises
recommendations_err(recs) ==
    \E k \in 1..Len(recs) : ~RecommendationValid(recs[k])

\* The tail of generate: sort, rank and build the Recommendation objects
generate_result(c) ==
    [recs |-> ranked(sorted_candidates(c.list)), err |-> c.err]

\* generate returning nothing when the box3 argument is graded A
generate_unless_box3_A(d, box1, box2, box3) ==
    IF box3.grade = "A" THEN [recs |-> << >>, err |-> FALSE]
    ELSE generate_result(generate_candidates(d))

\* RecommendationEngine.generate(dc, box1, box2, box3): the body never reads
\* box1, box2 or box3
generate(d, box1, box2, box3) == generate_result(generate_candidates(d))

----------------------------------------------------------------------------
(* The snapshots the engines are run on.  Every value satisfies the field
   constraints of data/models.py (tdp_watts > 0, energy_cost_per_kwh > 0,
   pue_target > 1.0, cop > 0, capacity_kw > 0, ...). *)

Server(server_type, tdp, power, cpu, gpu, mem, age, zombie, overprov) ==
    [server_type |-> server_type, tdp_watts |-> tdp, current_power_watts |-> power,
     cpu_utilization |-> cpu, gpu_utilization |-> gpu, memory_utilization |-> mem,
     age_months |-> age, warranty_months |-> 36,
     is_zombie |-> zombie, is_overprovisioned |-> overprov]

\* The flagged zombie of the spec's scenario: 100 W
ZombieServer == Server("cpu", 300, 100, 2, 0, 10, 30, TRUE, FALSE)

ServerProfiles ==
    { Server("cpu", 300, 200, 65, 0, 50, 24, FALSE, FALSE),
      ZombieServer,
      \* a flagged zombie that draws no power
      Server("cpu", 300, 0, 0, 0, 0, 10, TRUE, FALSE),
      \* flagged over-provisioned, already below 30 % of its TDP
      Server("cpu", 200, 50, 10, 0, 30, 20, FALSE, TRUE),
      \* an old, busy GPU server
      Server("gpu_training", 700, 500, 50, 80, 60, 70, FALSE, FALSE),
      \* idle but not flagged
      Server("cpu", 300, 150, 3, 0, 20, 40, FALSE, FALSE),
      \* memory-bound but not flagged
      Server("storage", 300, 250, 10, 0, 80, 50, FALSE, FALSE),
      \* a GPU server with a busy CPU and no GPU load
      Server("gpu_training", 700, 300, 70, 0, 30, 12, FALSE, FALSE),
      \* old, flagged both as a zombie and as over-provisioned
      Server("cpu", 300, 150, 3, 0, 80, 60, TRUE, TRUE) }

\* Blocks of identical servers: a healthy CPU server, and a GPU server run
\* above 90 % CPU and 95 % GPU utilization
ServerBlocks ==
    { [server |-> Server("cpu", 300, 200, 65, 0, 50, 24, FALSE, FALSE), count |-> 4],
      [server |-> Server("cpu", 300, 200, 65, 0, 50, 24, FALSE, FALSE), count |-> 7],
      [server |-> Server("cpu", 300, 200, 65, 0, 50, 24, FALSE, FALSE), count |-> 9],
      [server |-> Server("gpu_inference", 700, 650, 96, 98, 60, 12, FALSE, FALSE),
       count |-> 3] }

RackProfiles ==
    { [max_power_kw |-> 10, current_power_kw |-> 2],
      [max_power_kw |-> 10, current_power_kw |-> 5] }

WorkloadProfiles ==
    { [is_schedulable |-> TRUE, power_consumption_kw |-> 5],
      [is_schedulable |-> FALSE, power_consumption_kw |-> 10],
      [is_schedulable |-> TRUE, power_consumption_kw |-> 0] }

CoolingProfiles ==
    { [cooling_type |-> "air", cop |-> 360, capacity_kw |-> 100, current_load_kw |-> 50],
      [cooling_type |-> "air", cop |-> 250, capacity_kw |-> 100, current_load_kw |-> 50],
      [cooling_type |-> "liquid", cop |-> 400, capacity_kw |-> 100, current_load_kw |-> 90],
      [cooling_type |-> "hybrid", cop |-> 460, capacity_kw |-> 100, current_load_kw |-> 90],
      [cooling_type |-> "hybrid", cop |-> 350, capacity_kw |-> 100, current_load_kw |-> 50],
      [cooling_type |-> "air", cop |-> 360, capacity_kw |-> 100, current_load_kw |-> 85] }

\* Blocks of hourly readings: k readings of the same power, stamped after
\* every reading so far or, when early, from the start of the window
ReadingBlocks ==
    { [k |-> 1, total |-> 50, it |-> 0, early |-> FALSE],
      [k |-> 1, total |-> 140, it |-> 100, early |-> FALSE],
      [k |-> 24, total |-> 140, it |-> 100, early |-> FALSE],
      [k |-> 24, total |-> 180, it |-> 100, early |-> FALSE],
      [k |-> 24, total |-> 150, it |-> 100, early |-> TRUE],
      [k |-> 24, total |-> 105, it |-> 70, early |-> FALSE],
      [k |-> 24, total |-> 110, it |-> 80, early |-> FALSE],
      [k |-> 24, total |-> 120, it |-> 80, early |-> FALSE],
      [k |-> 48, total |-> 1100, it |-> 800, early |-> FALSE],
      [k |-> 1, total |-> 180, it |-> 100, early |-> FALSE],
      [k |-> 6, total |-> 180, it |-> 100, early |-> FALSE],
      [k |-> 19, total |-> 140, it |-> 100, early |-> FALSE],
      [k |-> 1, total |-> 110, it |-> 80, early |-> FALSE],
      [k |-> 168, total |-> 100, it |-> 70, early |-> FALSE],
      [k |-> 168, total |-> 101, it |-> 70, early |-> FALSE],
      [k |-> 168, total |-> 102, it |-> 70, early |-> FALSE] }

\* The numeric configuration changes a snapshot's builder may make
ConfigChanges ==
    { [field |-> "energy_cost_per_kwh", value |-> 120],
      [field |-> "carbon_intensity_gco2_per_kwh", value |-> 600],
      [field |-> "renewable_percentage", value |-> 0],
      [field |-> "renewable_percentage", value |-> 85],
      [field |-> "renewable_percentage", value |-> 49],
      [field |-> "renewable_percentage", value |-> 50],
      [field |-> "renewable_percentage", value |-> 100],
      [field |-> "pue_target", value |-> 120],
      [field |-> "pue_target", value |-> 125],
      [field |-> "total_power_capacity_mw", value |-> 200] }

DefaultConfig ==
    [total_power_capacity_mw |-> 1000, energy_cost_per_kwh |-> 100,
     carbon_intensity_gco2_per_kwh |-> 400, renewable_percentage |-> 30,
     ppa_available |-> FALSE, pue_target |-> 140]

WithField(config, c) ==
    [f \in DOMAIN config |-> IF f = c.field THEN c.value ELSE config[f]]

ReadingsOf(b, n) ==
    [i \in 1..b.k |->
        [timestamp |-> (IF b.early THEN 0 ELSE 1000 + n) + i,
         total_facility_power_kw |-> b.total,
         it_equipment_power_kw |-> b.it]]

NoResult == [scores |-> << >>, recs |-> << >>, boxes |-> << >>]

\* No get_latest_assessment call has returned since the last save
NoQuery == [called |-> FALSE]

Init ==
    /\ dc = [config |-> DefaultConfig, servers |-> << >>, racks |-> << >>,
             workloads |-> << >>, energy_readings |-> << >>,
             cooling_systems |-> << >>]
    /\ nbuilt = 0
    /\ pc = "build"
    /\ out = NoResult
    /\ raised = FALSE
    /\ gq = << >>
    /\ files = << >>
    /\ index = << >>
    /\ latest = NoQuery

Building == pc = "build" /\ nbuilt < MaxBuild

Built(d) ==
    /\ dc' = d
    /\ nbuilt' = nbuilt + 1
    /\ UNCHANGED <<pc, out, raised, gq, history_vars>>

SetConfig ==
    /\ Building
    /\ \/ \E c \in ConfigChanges :
             /\ dc.config[c.field] # c.value
             /\ Built([dc EXCEPT !.config = WithField(dc.config, c)])
       \/ /\ ~dc.config.ppa_available
          /\ Built([dc EXCEPT !.config.ppa_available = TRUE])

AddServer ==
    /\ Building
    /\ \E s \in ServerProfiles :
          Built([dc EXCEPT !.servers = Append(dc.servers, s)])

AddServerBlock ==
    /\ Building
    /\ \E b \in ServerBlocks :
          Built([dc EXCEPT !.servers = dc.servers \o [i \in 1..b.count |-> b.server]])

AddZombieFleet ==
    /\ Building
    /\ dc.servers = << >>
    /\ Built([dc EXCEPT !.servers = [i \in 1..10 |-> ZombieServer]])

AddRack ==
    /\ Building
    /\ \E r \in RackProfiles : Built([dc EXCEPT !.racks = Append(dc.racks, r)])

AddWorkload ==
    /\ Building
    /\ \E w \in WorkloadProfiles :
          Built([dc EXCEPT !.workloads = Append(dc.workloads, w)])

AddCoolingSystem ==
    /\ Building
    /\ \E cs \in CoolingProfiles :
          Built([dc EXCEPT !.cooling_systems = Append(dc.cooling_systems, cs)])

AddReadings ==
    /\ Building
    /\ \E b \in ReadingBlocks :
          Built([dc EXCEPT !.energy_readings =
                    dc.energy_readings \o ReadingsOf(b, Len(dc.energy_readings))])

\* ScoringEngine().score(dc): the result is kept, raised records an exception
Score ==
    /\ pc \in {"build", "done"}
    /\ LET Returned(r) ==
               /\ out' = [scores |-> r.scores, recs |-> << >>, boxes |-> << >>]
               /\ raised' = (raised \/ r.err)
       IN  Returned(ScoringEngine_score(dc))
    /\ dc' = [dc EXCEPT !.energy_readings = energy_readings_after_sorted(@)]
    /\ pc' = "scored"
    /\ UNCHANGED <<nbuilt, gq, history_vars>>

\* The (box1, box2, box3) triples generate is called with: the scores of the
\* snapshot in order, and the same three BoxScore objects rotated
BoxScoreArguments(scores) ==
    { <<scores.box1, scores.box2, scores.box3>>,
      <<scores.box3, scores.box1, scores.box2>> }

\* RecommendationEngine().generate(dc, box1, box2, box3): the list is kept
\* together with the BoxScore arguments of the call
Generate ==
    /\ pc \in {"scored", "done"}
    /\ \E boxes \in BoxScoreArguments(out.scores) :
          LET Returned(r) ==
                  /\ out' = [out EXCEPT !.recs = r.recs, !.boxes = boxes]
                  /\ raised' = (raised \/ r.err \/ recommendations_err(r.recs))
          IN  Returned(generate(dc, boxes[1], boxes[2], boxes[3]))
    /\ pc' = "done"
    /\ UNCHANGED <<dc, nbuilt, gq, history_vars>>

Next ==
    \/ SetConfig
    \/ AddServer
    \/ AddServerBlock
    \/ AddZombieFleet
    \/ AddRack
    \/ AddWorkload
    \/ AddCoolingSystem
    \/ AddReadings
    \/ Score
    \/ Generate

Spec == Init /\ [][Next]_vars

----------------------------------------------------------------------------
(* score_to_grade on its own: a caller grades scores one after the other.
   Scores are in thousandths here, so that values just below a boundary
   (84.999) are among them. *)

GradeScale == 1000

GradeInputs ==
    { 0, 39999, 40000, 40001, 54999, 55000, 55001, 69999, 70000, 70001,
      84999, 85000, 85001, 100000 }

GradeQuery ==
    /\ Len(gq) < MaxGradeQueries
    /\ \E s \in GradeInputs :
          gq' = Append(gq, [score |-> s, grade |-> score_to_grade(s, GradeScale)])
    /\ UNCHANGED <<dc, nbuilt, pc, out, raised, history_vars>>

NextGrade == GradeQuery

SpecGrade == Init /\ [][NextGrade]_vars

----------------------------------------------------------------------------
(* assessment/history.py: assessments are saved into one base directory and
   looked up through its index.  A facility name is a sequence of
   characters; a timestamp counts ticks of 1 / TicksPerSecond seconds.  An
   AssessmentResult is kept as its facility_name, timestamp and
   overall_score; model_dump_json and model_validate carry these three
   fields over unchanged. *)

TicksPerSecond == 2

FacilityNames ==
    { <<"A", " ", "B">>, <<"a", " ", "b">>, <<"A", "_", "B">>, <<"C">> }

Results ==
    [facility_name : FacilityNames, timestamp : {2, 3, 4}, overall_score : {25, 75}]

\* str.lower()
lower(name) ==
    [i \in 1..Len(name) |->
        IF name[i] = "A" THEN "a" ELSE IF name[i] = "B" THEN "b"
        ELSE IF name[i] = "C" THEN "c" ELSE name[i]]

\* str.replace(old, new) for one-character old and new
replace(name, old, new) ==
    [i \in 1..Len(name) |-> IF name[i] = old THEN new ELSE name[i]]

\* result.timestamp.strftime("%Y%m%d_%H%M%S"): the timestamp to the second
strftime(timestamp) == timestamp \div TicksPerSecond

\* The file name f"{safe_name}_{ts}.json" of save_assessment, kept as the
\* pair of its two parts
filename(result) ==
    << replace(replace(lower(result.facility_name), " ", "_"), "/", "_"),
       strftime(result.timestamp) >>

\* file_path.write_text(...): the file is created or overwritten
write_text(fs, name, result) ==
    IF \E i \in 1..Len(fs) : fs[i].name = name
    THEN [i \in 1..Len(fs) |->
             IF fs[i].name = name THEN [name |-> name, result |-> result] ELSE fs[i]]
    ELSE Append(fs, [name |-> name, result |-> result])

\* load_assessment(file_path)
load_assessment(fs, name) ==
    (CHOOSE f \in {fs[i] : i \in 1..Len(fs)} : f.name = name).result

AssessmentHistoryEntry(result) ==
    [facility_name |-> result.facility_name, timestamp |-> result.timestamp,
     overall_score |-> result.overall_score, file_path |-> filename(result)]

\* get_all_history: sorted(history.entries, key=timestamp, reverse=True),
\* stable
get_all_history(entries) ==
    LET n == Len(entries)
        before(j, i) ==
            \/ entries[j].timestamp > entries[i].timestamp
            \/ (entries[j].timestamp = entries[i].timestamp /\ j <= i)
        rank(i) == Cardinality({j \in 1..n : before(j, i)})
    IN  [k \in 1..n |-> entries[CHOOSE i \in 1..n : rank(i) = k]]

\* get_facility_history
get_facility_history(facility_name, entries) ==
    LET SameFacility(e) == lower(e.facility_name) = lower(facility_name)
    IN  SelectSeq(get_all_history(entries), SameFacility)

\* get_latest_assessment: found is FALSE for None
get_latest_assessment(facility_name, entries, fs) ==
    LET Latest(found) ==
            IF found = << >>
            THEN [called |-> TRUE, facility_name |-> facility_name, found |-> FALSE]
            ELSE [called |-> TRUE, facility_name |-> facility_name, found |-> TRUE,
                  result |-> load_assessment(fs, found[1].file_path)]
    IN  Latest(get_facility_history(facility_name, entries))

\* save_assessment(result, base_dir)
SaveAssessment ==
    /\ Len(index) < MaxSaves
    /\ \E result \in Results :
          /\ files' = write_text(files, filename(result), result)
          /\ index' = Append(index, AssessmentHistoryEntry(result))
    /\ latest' = NoQuery
    /\ UNCHANGED <<dc, nbuilt, pc, out, raised, gq>>

\* get_latest_assessment(facility_name, base_dir)
GetLatestAssessment ==
    /\ \E facility_name \in FacilityNames :
          latest' = get_latest_assessment(facility_name, index, files)
    /\ UNCHANGED <<dc, nbuilt, pc, out, raised, gq, files, index>>

NextHistory == SaveAssessment \/ GetLatestAssessment

SpecHistory == Init /\ [][NextHistory]_vars

----------------------------------------------------------------------------
(* Properties *)

SubMetrics(box) == out.scores[box].sub_metrics

AllSubMetrics == SubMetrics("box1") \o SubMetrics("box2") \o SubMetrics("box3")

BoxOverall(box) == out.scores[box].overall_score

InRange(x) == 0 <= x /\ x <= 10000

\* C1: once score has returned, every sub-metric score, every box
\* overall_score and the top-level overall score lie in [0, 100].
ScoresInRange ==
    pc # "build" =>
        /\ \A i \in 1..Len(AllSubMetrics) : InRange(AllSubMetrics[i].score)
        /\ \A box \in {"box1", "box2", "box3"} : InRange(BoxOverall(box))
        /\ InRange(out.scores.overall)

\* C1 witness: a scored snapshot whose carbon intensity is beyond the range
\* the linear formula maps into [0, 100], so the clamp decides the score
ScoredAboveCarbonRange ==
    /\ pc = "scored"
    /\ dc.config.carbon_intensity_gco2_per_kwh > 500
    /\ SubMetrics("box1")[6].name = "Carbon Intensity"
    /\ SubMetrics("box1")[6].score = 0

EmptyFleet ==
    /\ dc.servers = << >>
    /\ dc.racks = << >>
    /\ dc.workloads = << >>
    /\ dc.cooling_systems = << >>
    /\ dc.energy_readings = << >>

\* C2: score and generate never raise: no division by zero is reached and
\* every object they build passes its field constraints.
NeverRaises == raised = FALSE

\* C2 witness: both engines have returned on a snapshot with no servers,
\* racks, workloads or cooling systems and a reading whose IT power is 0
ReturnedOnDegenerateSnapshot ==
    /\ pc = "done"
    /\ dc.servers = << >> /\ dc.racks = << >>
    /\ dc.workloads = << >> /\ dc.cooling_systems = << >>
    /\ \E i \in 1..Len(dc.energy_readings) :
          dc.energy_readings[i].it_equipment_power_kw = 0
    /\ ~raised

\* The grade the inclusive lower bounds give a score in thousandths
GradeByBounds(s) ==
    IF s >= 85000 THEN "A"
    ELSE IF s >= 70000 THEN "B"
    ELSE IF s >= 55000 THEN "C"
    ELSE IF s >= 40000 THEN "D"
    ELSE "F"

GradeRank(g) ==
    IF g = "A" THEN 4 ELSE IF g = "B" THEN 3 ELSE IF g = "C" THEN 2
    ELSE IF g = "D" THEN 1 ELSE 0

\* C4: score_to_grade returns A from 85, B from 70, C from 55, D from 40 and
\* F below, the bounds inclusive; it returns a grade for every score, and a
\* higher score never gets a worse grade.
GradeBoundaries ==
    /\ \A i \in 1..Len(gq) :
          /\ gq[i].grade \in {"A", "B", "C", "D", "F"}
          /\ gq[i].grade = GradeByBounds(gq[i].score)
    /\ \A i, j \in 1..Len(gq) :
          gq[i].score >= gq[j].score => GradeRank(gq[i].grade) >= GradeRank(gq[j].grade)

\* C4 witness: 85 graded A and 84.999 graded B
GradedAcrossBoundary ==
    /\ \E i \in 1..Len(gq) : gq[i].score = 85000 /\ gq[i].grade = "A"
    /\ \E i \in 1..Len(gq) : gq[i].score = 84999 /\ gq[i].grade = "B"

\* C5: the overall score is 0.40 * Box 1 + 0.30 * Box 2 + 0.30 * Box 3 of the
\* rounded box scores, rounded to 2 decimals, and the overall grade is
\* score_to_grade of it.
OverallIsWeightedAverage ==
    pc # "build" =>
        /\ out.scores.overall
             = RoundDiv(40 * BoxOverall("box1") + 30 * BoxOverall("box2")
                        + 30 * BoxOverall("box3"), 100)
        /\ out.scores.grade = score_to_grade(out.scores.overall, 100)

\* C5 witness: a scored snapshot whose Box 1 and Box 2 scores differ
ScoredWithUnequalBoxes ==
    /\ pc = "scored"
    /\ BoxOverall("box1") # BoxOverall("box2")
    /\ BoxOverall("box2") # BoxOverall("box3")

WeightsOf(box) == [i \in 1..Len(SubMetrics(box)) |-> SubMetrics(box)[i].weight]

\* C6: the sub-metric weights of each box are 0.25, 0.20, 0.20, 0.15, 0.10,
\* 0.10 (Box 1), 0.30, 0.25, 0.20, 0.15, 0.10 (Box 2) and five times 0.20
\* (Box 3), each list summing to 1.0, and the box weights 0.40, 0.30, 0.30
\* sum to 1.0.
WeightsSumToOne ==
    /\ <<BOX1_WEIGHT, BOX2_WEIGHT, BOX3_WEIGHT>> = <<40, 30, 30>>
    /\ BOX1_WEIGHT + BOX2_WEIGHT + BOX3_WEIGHT = 100
    /\ pc # "build" =>
          /\ WeightsOf("box1") = <<25, 20, 20, 15, 10, 10>>
          /\ WeightsOf("box2") = <<30, 25, 20, 15, 10>>
          /\ WeightsOf("box3") = <<20, 20, 20, 20, 20>>
          /\ \A box \in {"box1", "box2", "box3"} : Sum(WeightsOf(box)) = 100

\* C6 witness: a scored snapshot with six, five and five sub-metrics
ScoredAllSubMetrics ==
    /\ pc = "scored"
    /\ Len(SubMetrics("box1")) = 6
    /\ Len(SubMetrics("box2")) = 5
    /\ Len(SubMetrics("box3")) = 5

HasScore(box, i, name, score) ==
    SubMetrics(box)[i].name = name /\ SubMetrics(box)[i].score = score

\* C7: on the empty fleet Box 2's zombie and over-provisioned scores are
\* 100, Box 1's PUE score is 0, and Box 1's cooling and availability scores
\* are 50.
EmptyFleetFallbacks ==
    (pc # "build" /\ EmptyFleet) =>
        /\ HasScore("box2", 1, "Zombie Servers", 10000)
        /\ HasScore("box2", 2, "Over-Provisioned Resources", 10000)
        /\ HasScore("box1", 1, "PUE Efficiency", 0)
        /\ HasScore("box1", 4, "Cooling Performance", 5000)
        /\ HasScore("box1", 5, "Operational Availability", 5000)

\* C7 witness: the empty fleet has been scored
EmptyFleetScored == pc = "scored" /\ EmptyFleet

\* C8: the returned list has non-increasing dollar savings, ranks exactly
\* 1..len(list) in list order, and at most 15 entries.
RecommendationListInvariant ==
    pc = "done" =>
        /\ \A k \in 1..(Len(out.recs) - 1) :
              out.recs[k].monthly_savings_dollars
                >= out.recs[k + 1].monthly_savings_dollars
        /\ \A k \in 1..Len(out.recs) : out.recs[k].rank = k
        /\ Len(out.recs) <= 15

\* C8 witness: a returned list of at least three recommendations, not all
\* with the same savings
ReturnedRankedList ==
    /\ pc = "done"
    /\ Len(out.recs) >= 3
    /\ out.recs[1].monthly_savings_dollars > out.recs[Len(out.recs)].monthly_savings_dollars

ZeroImpact(r) ==
    r.monthly_savings_dollars = 0 /\ r.monthly_energy_savings_kwh = 0

Recommended(title) == \E k \in 1..Len(out.recs) : out.recs[k].title = title

\* C9 as the spec states it: no returned recommendation has both
\* monthly_savings_dollars = 0 and monthly_energy_savings_kwh = 0.
NoZeroImpactRecommendation ==
    pc = "done" => \A k \in 1..Len(out.recs) : ~ZeroImpact(out.recs[k])

\* C9, amended: generate does not filter on impact.  Whenever a server is
\* flagged over-provisioned the rightsizing recommendation is returned, and
\* whenever the renewable opportunity score exceeds 20 the renewable
\* recommendation is returned, also when both their savings are zero.
TriggeredCandidatesKept ==
    pc = "done" =>
        /\ (\E i \in 1..Len(dc.servers) : dc.servers[i].is_overprovisioned)
              => Recommended("Rightsize Over-Provisioned Servers")
        /\ analyze_renewable_opportunity(dc).renewable_opportunity_score > 200
              => Recommended("Increase Renewable Energy Adoption")

\* C9 witness: a returned list holding a rightsizing recommendation and a
\* renewable recommendation that both save nothing
ReturnedZeroImpact ==
    /\ pc = "done"
    /\ \E k \in 1..Len(out.recs) :
          /\ out.recs[k].title = "Rightsize Over-Provisioned Servers"
          /\ ZeroImpact(out.recs[k])
    /\ \E k \in 1..Len(out.recs) :
          /\ out.recs[k].title = "Increase Renewable Energy Adoption"
          /\ ZeroImpact(out.recs[k])

\* The scenario of C10: exactly 10 servers, all flagged zombies drawing
\* 100 W, at $0.10 per kWh
ZombieScenario ==
    /\ Len(dc.servers) = 10
    /\ \A i \in 1..Len(dc.servers) :
          dc.servers[i].is_zombie /\ dc.servers[i].current_power_watts = 100
    /\ dc.config.energy_cost_per_kwh = 100

ZombieSavings(cents) ==
    \E k \in 1..Len(out.recs) :
        /\ out.recs[k].title = "Decommission Zombie Servers"
        /\ out.recs[k].monthly_savings_dollars = cents

\* C10 as the spec states it: in the scenario the zombie recommendation
\* saves $720.00 a month.
ZombieScenarioSaves720 ==
    (pc = "done" /\ ZombieScenario) => ZombieSavings(72000)

\* C10, amended: in the scenario the zombie recommendation saves $72.00 a
\* month (10 x 0.1 kW x 720 h = 720 kWh at $0.10).
ZombieScenarioSaves72 ==
    (pc = "done" /\ ZombieScenario) =>
        /\ ZombieSavings(7200)
        /\ \A k \in 1..Len(out.recs) :
              out.recs[k].title = "Decommission Zombie Servers"
                => out.recs[k].monthly_energy_savings_kwh = 72000

\* C10 witness: generate has returned on the scenario
ZombieScenarioReturned == pc = "done" /\ ZombieScenario

\* The position of a recommendation's category in the order generate
\* considers them
CategoryOrder ==
    << "Decommission Zombie Servers", "Rightsize Over-Provisioned Servers",
       "Refresh Legacy Hardware", "Upgrade Underperforming Cooling Systems",
       "Optimize Workload Scheduling", "Increase Renewable Energy Adoption",
       "Improve Power Usage Effectiveness (PUE)",
       "Implement Proactive Capacity Planning" >>

CategoryIndex(title) == CHOOSE c \in 1..Len(CategoryOrder) : CategoryOrder[c] = title

\* C11: recommendations with equal monthly dollar savings are returned in
\* category-generation order (zombie, rightsizing, refresh, cooling,
\* scheduling, renewable, PUE, capacity planning).
TiesKeepCategoryOrder ==
    pc = "done" =>
        \A i, j \in 1..Len(out.recs) :
            (i < j /\ out.recs[i].monthly_savings_dollars
                        = out.recs[j].monthly_savings_dollars)
              => CategoryIndex(out.recs[i].title) < CategoryIndex(out.recs[j].title)

\* C11 witness: a returned list in which two recommendations tie below a
\* recommendation that saves more
ReturnedTieBelowLeader ==
    /\ pc = "done"
    /\ \E i, j, k \in 1..Len(out.recs) :
          /\ i < j /\ j < k
          /\ out.recs[i].monthly_savings_dollars > out.recs[j].monthly_savings_dollars
          /\ out.recs[j].monthly_savings_dollars = out.recs[k].monthly_savings_dollars

\* The raw growth of facility power between the first and the last week of
\* readings, normalised to a month, exceeds 1 %
GrowthAboveOnePercent ==
    LET readings == dc.energy_readings
        n == Len(readings)
        first == SumRange(Map(readings, TotalPower), 1, 168)
        last == SumRange(Map(readings, TotalPower), n - 167, n)
    IN  /\ n >= 336
        /\ first > 0
        /\ (last - first) * 720 * 100 > first * (n - 168)

\* C12: a candidate is generated only if its trigger holds: zombie
\* decommission only with a zombie server, hardware refresh only with a
\* refresh candidate, capacity planning only with growth above 1 % a month,
\* PUE improvement only with an average PUE above pue_target, so never
\* without a valid reading.
CandidatesOnlyWhenTriggered ==
    pc = "done" =>
        /\ Recommended("Decommission Zombie Servers")
              => \E i \in 1..Len(dc.servers) : _is_zombie(dc.servers[i])
        /\ Recommended("Refresh Legacy Hardware")
              => \E i \in 1..Len(dc.servers) :
                     \/ dc.servers[i].age_months > 48
                     \/ dc.servers[i].age_months > dc.servers[i].warranty_months
        /\ Recommended("Implement Proactive Capacity Planning")
              => GrowthAboveOnePercent
        /\ Recommended("Improve Power Usage Effectiveness (PUE)")
              => /\ \E i \in 1..Len(dc.energy_readings) :
                        dc.energy_readings[i].it_equipment_power_kw > 0
                           /\ dc.energy_readings[i].total_facility_power_kw > 0
                 /\ avg_pue(dc) > 100 * dc.config.pue_target

\* C12 witness: a returned list with the capacity planning and the PUE
\* recommendation but without the zombie and the refresh recommendation
ReturnedOnlyTriggered ==
    /\ pc = "done"
    /\ Recommended("Implement Proactive Capacity Planning")
    /\ Recommended("Improve Power Usage Effectiveness (PUE)")
    /\ ~Recommended("Decommission Zombie Servers")
    /\ ~Recommended("Refresh Legacy Hardware")

\* The renewable recommendation of the returned list carries the given
\* dollars (cents) and kWh (hundredths)
RenewableAmounts(dollars, kwh) ==
    \E k \in 1..Len(out.recs) :
        /\ out.recs[k].title = "Increase Renewable Energy Adoption"
        /\ out.recs[k].monthly_savings_dollars = dollars
        /\ out.recs[k].monthly_energy_savings_kwh = kwh

RenewableImpactOf(r) ==
    r.renewable_opportunity_score > 200 =>
        /\ r.estimated_cost_impact_monthly < 0 =>
              RenewableAmounts(-r.estimated_cost_impact_monthly,
                               r.potential_carbon_reduction_tons_monthly * 2000)
        /\ r.estimated_cost_impact_monthly >= 0 =>
              RenewableAmounts(0, r.potential_carbon_reduction_tons_monthly * 2000)

\* C13: the renewable recommendation counts a negative cost impact (PPA
\* savings) as dollar savings of its absolute value and a positive or zero
\* cost impact as zero dollars, its kWh are the carbon-reduction tons x 2000,
\* and it is returned also when its dollars are zero.
RenewableImpactSigned ==
    pc = "done" => RenewableImpactOf(analyze_renewable_opportunity(dc))

PremiumReturnedAtZero(r) ==
    /\ r.estimated_cost_impact_monthly > 0
    /\ r.potential_carbon_reduction_tons_monthly > 0
    /\ RenewableAmounts(0, r.potential_carbon_reduction_tons_monthly * 2000)

\* C13 witness: a renewable recommendation returned with zero dollars and
\* positive kWh on a snapshot whose cost impact is a premium
ReturnedRenewablePremium ==
    pc = "done" /\ PremiumReturnedAtZero(analyze_renewable_opportunity(dc))

\* C14: every returned recommendation has monthly_savings_dollars >= 0,
\* monthly_energy_savings_kwh >= 0, box_number in {1, 2, 3}, and effort and
\* impact each in {low, medium, high}.
RecommendationFieldsInRange ==
    pc = "done" =>
        \A k \in 1..Len(out.recs) :
            /\ out.recs[k].monthly_savings_dollars >= 0
            /\ out.recs[k].monthly_energy_savings_kwh >= 0
            /\ out.recs[k].box_number \in {1, 2, 3}
            /\ out.recs[k].effort \in {"low", "medium", "high"}
            /\ out.recs[k].impact \in {"low", "medium", "high"}

\* C14 witness: a rightsizing recommendation returned for a fleet with a
\* flagged server that draws less than 30 % of its TDP, next to
\* recommendations of the two other boxes
ReturnedFlooredRightsizing ==
    /\ pc = "done"
    /\ Recommended("Rightsize Over-Provisioned Servers")
    /\ \E i \in 1..Len(dc.servers) :
          /\ dc.servers[i].is_overprovisioned
          /\ 10 * dc.servers[i].current_power_watts < 3 * dc.servers[i].tdp_watts
    /\ \E k \in 1..Len(out.recs) : out.recs[k].box_number = 1
    /\ \E k \in 1..Len(out.recs) : out.recs[k].box_number = 3

\* C15: score and generate leave the snapshot as it was: config, servers,
\* racks, workloads, cooling systems and energy readings, the order of the
\* lists included.
SnapshotUnchangedByEngines ==
    [][(pc' = "scored" \/ pc' = "done") => dc' = dc]_vars

\* C15 witness: both engines have returned on a snapshot whose energy
\* readings are not in timestamp order
ReturnedOnUnsortedReadings ==
    /\ pc = "done"
    /\ ~IsSortedByTimestamp(dc.energy_readings)

\* The saved assessments of a facility, names compared ignoring case
SavedOf(facility_name) ==
    { [facility_name |-> index[i].facility_name, timestamp |-> index[i].timestamp,
       overall_score |-> index[i].overall_score] :
        i \in {j \in 1..Len(index) :
                  lower(index[j].facility_name) = lower(facility_name)} }

LatestAmong(saved) ==
    IF saved = {} THEN ~latest.found
    ELSE /\ latest.found
         /\ latest.result \in saved
         /\ \A r \in saved : r.timestamp <= latest.result.timestamp

\* C16: get_latest_assessment(F) returns None if no saved assessment has
\* facility name F ignoring case, and otherwise the saved assessment of
\* facility F with the latest timestamp.
LatestIsMostRecentOfFacility ==
    latest.called => LatestAmong(SavedOf(latest.facility_name))

NamesOf(box) == [i \in 1..Len(SubMetrics(box)) |-> SubMetrics(box)[i].name]

\* The overall score and the grades of a box follow from the sub-metrics
\* it lists
BoxFollowsFromSubMetrics(box) ==
    LET m == SubMetrics(box)
        weighted == [i \in 1..Len(m) |-> m[i].score * m[i].weight]
    IN  /\ BoxOverall(box) = RoundDiv(Sum(weighted), 100)
        /\ out.scores[box].grade = GradeByBounds(10 * BoxOverall(box))
        /\ \A i \in 1..Len(m) : m[i].grade = GradeByBounds(10 * m[i].score)

\* C17: each BoxScore lists its sub-metrics in a fixed order (6, 5 and 5)
\* with the documented weights, its overall_score is the sum of score x
\* weight over the listed sub-metrics rounded to 2 decimals, and every grade
\* is score_to_grade of its score.
BoxesFollowFromSubMetrics ==
    pc # "build" =>
        /\ NamesOf("box1") = << "PUE Efficiency", "Server Utilization",
                                "Cost Efficiency", "Cooling Performance",
                                "Operational Availability", "Carbon Intensity" >>
        /\ NamesOf("box2") = << "Zombie Servers", "Over-Provisioned Resources",
                                "Legacy Hardware", "Cooling Waste",
                                "Stranded Capacity" >>
        /\ NamesOf("box3") = << "Forecast Readiness", "Hardware Refresh",
                                "Scheduling Optimization", "Renewable Energy",
                                "Efficiency Trend" >>
        /\ WeightsOf("box1") \o WeightsOf("box2") \o WeightsOf("box3")
             = <<25, 20, 20, 15, 10, 10, 30, 25, 20, 15, 10, 20, 20, 20, 20, 20>>
        /\ \A box \in {"box1", "box2", "box3"} : BoxFollowsFromSubMetrics(box)

\* C17 witness: a scored snapshot whose Box 2 sub-metrics carry at least three
\* different grades, with a positive stranded-capacity score
ScoredMixedGrades ==
    /\ pc = "scored"
    /\ Cardinality({SubMetrics("box2")[i].grade : i \in 1..5}) >= 3
    /\ SubMetrics("box2")[5].score > 0
    /\ BoxOverall("box2") # BoxOverall("box1")

FlaggedZombies == Cardinality({i \in 1..Len(dc.servers) : dc.servers[i].is_zombie})

\* C18: with at least one server the Box 2 zombie score is
\* max(0, 100 - 500 x flagged zombies / servers), so 0 from 20 % flagged
\* zombies on; with no servers the value is 0 and the score 100.
ZombieScoreFormula ==
    pc # "build" =>
        LET n == Len(dc.servers)
            z == SubMetrics("box2")[1]
        IN  /\ z.name = "Zombie Servers"
            /\ n = 0 => (z.value = 0 /\ z.score = 10000)
            /\ n > 0 => z.score = Max(0, RoundDiv(100 * (100 * n - 500 * FlaggedZombies), n))
            /\ (n > 0 /\ 5 * FlaggedZombies >= n) => z.score = 0

\* C18 witness: a scored fleet of five servers with exactly one flagged
\* zombie, 20 % of the fleet
ScoredOneZombieInFive ==
    /\ pc = "scored"
    /\ Len(dc.servers) = 5
    /\ FlaggedZombies = 1

GpuTypeServers ==
    Cardinality({i \in 1..Len(dc.servers) :
                    dc.servers[i].server_type \in {"gpu_training", "gpu_inference"}})

\* clamp(avg / target x 100, 0, 100), less 500 x (avg - knee) above the knee
\* and floored at 0, in 1/300 of a point; avg and knee in ten-thousandths,
\* per_unit is 300 x 100 / target
TargetScore(avg, per_unit, knee) ==
    LET base == Min(Max(per_unit * avg, 0), 30000)
    IN  IF avg > knee THEN Max(base - 15 * (avg - knee), 0) ELSE base

\* The blend cpu_score x (1 - w) + gpu_score x w in hundredths of a point,
\* w in tenths
BlendedScore(w) ==
    RoundDiv(TargetScore(avg_cpu_utilization(dc), 5, 9000) * (10 - w)
             + TargetScore(avg_gpu_utilization(dc), 4, 9500) * w, 30)

\* C19: with no servers the Box 1 utilization value and score are 0;
\* otherwise the score is cpu_score x (1 - w) + gpu_score x w with w = 0.7
\* if GPU-type servers are strictly more than 30 % of the fleet and 0.4
\* otherwise, cpu_score = clamp(cpu_avg / 0.60 x 100, 0, 100) less
\* 500 x (cpu_avg - 0.90) above 0.90, and gpu_score likewise with target
\* 0.75 and penalty above 0.95.
UtilizationScoreFormula ==
    pc # "build" =>
        LET n == Len(dc.servers)
            u == SubMetrics("box1")[2]
        IN  /\ u.name = "Server Utilization"
            /\ n = 0 => (u.value = 0 /\ u.score = 0)
            /\ (n > 0 /\ 10 * GpuTypeServers > 3 * n) => u.score = BlendedScore(7)
            /\ (n > 0 /\ 10 * GpuTypeServers <= 3 * n) => u.score = BlendedScore(4)

\* C19 witness: a scored fleet of ten servers, exactly three of them
\* GPU-type, whose GPU utilization is above 95 %
ScoredThreeGpuInTen ==
    /\ pc = "scored"
    /\ Len(dc.servers) = 10
    /\ GpuTypeServers = 3
    /\ avg_gpu_utilization(dc) > 9500
    /\ SubMetrics("box1")[2].score = BlendedScore(4)
    /\ BlendedScore(4) # BlendedScore(7)

\* Indices of the readings with PUE > 0, and of those among them whose PUE
\* is within 10 % of the configured target (PUE in ten-thousandths, target
\* in hundredths)
ValidReadingIndices ==
    {i \in 1..Len(dc.energy_readings) : pue(dc.energy_readings[i]) > 0}

WithinReadingIndices ==
    {i \in ValidReadingIndices :
        LET gap == pue(dc.energy_readings[i]) - 100 * dc.config.pue_target
        IN  10 * (IF gap < 0 THEN -gap ELSE gap) <= 100 * dc.config.pue_target}

\* value and score, for w readings within the target out of n valid ones
AvailabilityOf(a, w, n) ==
    /\ a.name = "Operational Availability"
    /\ n = 0 => (a.value = 0 /\ a.score = 5000)
    /\ n > 0 => a.value = RoundDiv(10000 * w, n)
    /\ (n > 0 /\ 100 * w >= 95 * n) => a.score = 10000
    /\ (n > 0 /\ 100 * w < 80 * n) => a.score = 0
    /\ (n > 0 /\ 100 * w >= 80 * n /\ 100 * w < 95 * n) =>
           a.score = RoundDiv((100 * w - 80 * n) * 10000, 15 * n)

\* C20: with at least one valid (PUE > 0) reading, p is the fraction of
\* valid readings with |PUE - pue_target| <= 0.10 x pue_target and the
\* availability score is 100 if p >= 0.95, 0 if p < 0.80 and
\* (p - 0.80) / 0.15 x 100 in between; with no valid reading the value is 0
\* and the score is 50.
AvailabilityScoreFormula ==
    pc # "build" =>
        AvailabilityOf(SubMetrics("box1")[5], Cardinality(WithinReadingIndices),
                       Cardinality(ValidReadingIndices))

\* C20 witness: a scored snapshot whose fraction of valid readings within
\* target lies strictly between 0.80 and 0.95
ScoredAvailabilityBetween ==
    /\ pc = "scored"
    /\ 100 * Cardinality(WithinReadingIndices) > 80 * Cardinality(ValidReadingIndices)
    /\ 100 * Cardinality(WithinReadingIndices) < 95 * Cardinality(ValidReadingIndices)
    /\ SubMetrics("box1")[5].score > 0
    /\ SubMetrics("box1")[5].score < 10000

\* Indices of the cooling systems whose load percentage exceeds 85 or whose
\* COP (in hundredths) is below 5.0 for liquid and 3.0 for air and hybrid
WastefulSystems ==
    {i \in 1..Len(dc.cooling_systems) :
        LET cs == dc.cooling_systems[i]
        IN  \/ load_pct(cs) > 85 * 100
            \/ cs.cop < (IF cs.cooling_type = "liquid" THEN 500 ELSE 300)}

\* value and score for w wasteful systems out of n
CoolingWasteOf(c, w, n) ==
    /\ c.name = "Cooling Waste"
    /\ n = 0 => (c.value = 0 /\ c.score = 10000)
    /\ n > 0 => c.score = Max(0, RoundDiv(10000 * n - 20000 * w, n))
    /\ (n > 0 /\ 2 * w >= n) => c.score = 0

\* C21: a cooling system counts as wasteful iff its load exceeds 85 % of
\* capacity or its COP is below its type benchmark (5.0 liquid, 3.0 air and
\* hybrid); the Cooling Waste score is max(0, 100 - 200 x wasteful fraction),
\* which is 0 when half or more of the systems are wasteful; with no cooling
\* systems the value is 0 and the score is 100.
CoolingWasteScoreFormula ==
    pc # "build" =>
        CoolingWasteOf(SubMetrics("box2")[4], Cardinality(WastefulSystems),
                       Len(dc.cooling_systems))

\* C21 witness: two systems scored, one of them wasteful and the other
\* loaded at exactly 85 % of capacity, for a score of 0
ScoredHalfWasteful ==
    /\ pc = "scored"
    /\ Len(dc.cooling_systems) = 2
    /\ Cardinality(WastefulSystems) = 1
    /\ \E i \in 1..2 : load_pct(dc.cooling_systems[i]) = 8500
    /\ SubMetrics("box2")[4].score = 0

\* The total power of the readings, taken in timestamp order
PowerInOrder == Map(sorted_by_timestamp(dc.energy_readings), TotalPower)

\* months = num / den with den > 0, clamped to [0, 120]: the value in
\* tenths of a month and the score
MonthsScored(f, num, den) ==
    /\ f.value = Max(0, Min(1200, RoundDiv(10 * num, den)))
    /\ f.score = IF num > 24 * den THEN 10000
                 ELSE IF num > 12 * den THEN 7000
                 ELSE IF num > 6 * den THEN 4000
                 ELSE 1000

\* 48 or more readings: early and late are the sums of the first and of the
\* last 24 powers, capacity in kW
TrendScored(f, early, late, n, capacity) ==
    IF late > early
    THEN MonthsScored(f, (24 * capacity - late) * (n - 24), 720 * (late - early))
    ELSE f.value = 1200 /\ f.score = 10000

\* fewer than 48 readings: recent is the sum of the last k powers, k the
\* smaller of n and 24
HeadroomScored(f, recent, k, capacity) ==
    MonthsScored(f, IF 2 * (capacity * k - recent) > capacity * k THEN 36
                    ELSE IF 4 * (capacity * k - recent) > capacity * k THEN 18
                    ELSE 6, 1)

ForecastOf(f, power, n, capacity) ==
    /\ f.name = "Forecast Readiness"
    /\ n = 0 => (f.value = 0 /\ f.score = 5000)
    /\ n >= 48 => TrendScored(f, SumRange(power, 1, 24), SumRange(power, n - 23, n),
                              n, capacity)
    /\ (0 < n /\ n < 48) =>
          HeadroomScored(f, SumRange(power, n - Min(n, 24) + 1, n), Min(n, 24),
                         capacity)

\* C22: with no readings the Forecast Readiness value is 0 and the score 50.
\* With 48 or more readings in timestamp order, growth per hour is (average
\* power of the last 24 - average of the first 24) / (n - 24); if it is
\* positive, months = (capacity_kW - average of the last 24) / growth / 720,
\* otherwise months is 120.  With fewer than 48 readings months is 36 if the
\* headroom fraction exceeds 50 %, 18 if it exceeds 25 %, else 6.  months is
\* clamped to [0, 120] and the score is 100 if months > 24, 70 if > 12,
\* 40 if > 6, else 10.
ForecastScoreFormula ==
    pc # "build" =>
        ForecastOf(SubMetrics("box3")[1], PowerInOrder, Len(dc.energy_readings),
                   dc.config.total_power_capacity_mw)

\* C22 witness: a scored snapshot of at least 48 readings with growing power
\* and between 6 and 12 months of runway
ScoredTrendRunway ==
    /\ pc = "scored"
    /\ Len(dc.energy_readings) >= 48
    /\ SubMetrics("box3")[1].score = 4000
    /\ SubMetrics("box3")[1].value > 60
    /\ SubMetrics("box3")[1].value <= 120

\* C23: the Renewable Energy score is renewable_fraction x 100, plus a bonus
\* of 10 (the result capped at 100) exactly when a PPA is available and the
\* renewable fraction is strictly below 0.50; at 0.50 or above no bonus is
\* added.
RenewableScoreFormula ==
    pc # "build" =>
        LET e == SubMetrics("box3")[4]
            percent == dc.config.renewable_percentage
            bonus == IF dc.config.ppa_available /\ percent < 50 THEN 1000 ELSE 0
        IN  /\ e.name = "Renewable Energy"
            /\ e.score = Min(10000, 100 * percent + bonus)

\* C23 witness: scored with a PPA available and a renewable fraction of
\* exactly 0.50, so no bonus
ScoredPpaAtHalf ==
    /\ pc = "scored"
    /\ dc.config.ppa_available
    /\ dc.config.renewable_percentage = 50
    /\ SubMetrics("box3")[4].score = 5000

CopFindingEmitted ==
    \E i \in 1..Len(out.scores["box1"].findings) :
        out.scores["box1"].findings[i] = "cop_below_benchmark"

LiquidSystems ==
    {i \in 1..Len(dc.cooling_systems) : dc.cooling_systems[i].cooling_type = "liquid"}

\* The average COP as the Cooling Performance sub-metric reports it, in
\* hundredths
ReportedAvgCop == SubMetrics("box1")[4].value

\* C24 as stated: Box 1 emits a below-benchmark COP finding whenever the
\* facility has cooling systems whose average COP is below the benchmark
\* used for the Cooling Performance score (5.0 when more than half of the
\* systems are liquid-cooled, otherwise 3.0), and emits no such finding
\* otherwise.
CopFindingAgainstScoreBenchmark ==
    pc # "build" =>
        (CopFindingEmitted <=>
            /\ Len(dc.cooling_systems) > 0
            /\ ReportedAvgCop <
                  (IF 2 * Cardinality(LiquidSystems) > Len(dc.cooling_systems)
                   THEN 500 ELSE 300))

\* C24 amended: Box 1 emits the COP finding whenever the facility has
\* cooling systems whose reported average COP is below the air-cooled
\* benchmark 3.0, whatever benchmark the Cooling Performance score uses, and
\* emits no such finding otherwise.
CopFindingAgainstAirBenchmark ==
    pc # "build" =>
        /\ SubMetrics("box1")[4].name = "Cooling Performance"
        /\ CopFindingEmitted <=>
               (Len(dc.cooling_systems) > 0 /\ ReportedAvgCop < 300)

\* C24 witness: scored with liquid cooling in the majority and an average
\* COP of at least 3.0 but below 5.0: no finding
ScoredLiquidBelowFive ==
    /\ pc = "scored"
    /\ 2 * Cardinality(LiquidSystems) > Len(dc.cooling_systems)
    /\ ReportedAvgCop >= 300
    /\ ReportedAvgCop < 500
    /\ ~CopFindingEmitted

\* The zombie count formatted into the description of the zombie
\* recommendation: len(zombie_data)
ReportedZombies == Len(detect_zombies(dc))

\* C25: a zombie-decommission recommendation is generated if and only if
\* Box 2 counts at least one zombie server (its Zombie Servers score is below
\* 100), and the number of zombies it reports equals Box 2's zombie count.
ZombieRecommendationAgreesWithBox2 ==
    pc = "done" =>
        /\ Recommended("Decommission Zombie Servers") <=>
               (zombie_count(dc) > 0 /\ SubMetrics("box2")[1].score < 10000)
        /\ Recommended("Decommission Zombie Servers") =>
               ReportedZombies = zombie_count(dc)

\* C26: a cooling-upgrade recommendation is generated if and only if Box 2's
\* Cooling Waste sub-metric counts at least one wasteful cooling system (its
\* score is below 100): the recommendation engine and the Box 2 scorer agree
\* on which cooling systems are overloaded or below their COP benchmark.
CoolingRecommendationAgreesWithBox2 ==
    pc = "done" =>
        /\ Recommended(COOLING_UPGRADE.title) <=>
               SubMetrics("box2")[4].score < 10000
        /\ \A i \in 1..Len(dc.cooling_systems) :
               IsWasteful(dc.cooling_systems[i]) <=>
                   \/ IsOverloadedSystem(dc.cooling_systems[i])
                   \/ IsUnderperforming(dc.cooling_systems[i])

\* C27: generate emits at most one recommendation per category (the titles
\* in the returned list are pairwise distinct), so the list never has more
\* than 8 entries and the truncation to 15 never removes a candidate.
OneRecommendationPerCategory ==
    pc = "done" =>
        /\ \A j, k \in 1..Len(out.recs) :
               out.recs[j].title = out.recs[k].title => j = k
        /\ Len(out.recs) <= 8
        /\ Len(out.recs) = Len(generate_candidates(dc).list)

\* C27 witness: a returned list of five recommendations, among them one of
\* the cooling or the PUE category
ReturnedFiveCategories ==
    /\ pc = "done"
    /\ Len(out.recs) = 5
    /\ Recommended(COOLING_UPGRADE.title) \/ Recommended(PUE_IMPROVEMENT.title)

RenewableScoreAt(percent) ==
    score_renewable([dc EXCEPT !.config.renewable_percentage = percent]).score

\* C29 as stated: for a fixed PPA flag the Renewable Energy score is
\* monotonically non-decreasing in the renewable fraction: raising the
\* fraction never lowers the score.
RenewableScoreMonotone ==
    pc # "build" =>
        \A percent \in dc.config.renewable_percentage..100 :
            SubMetrics("box3")[4].score <= RenewableScoreAt(percent)

\* C29 amended: for a fixed PPA flag, raising the renewable fraction never
\* lowers the score, except that with a PPA available a raise from below
\* 0.50 to 0.50 or above can lower it.
RenewableScoreMonotoneApartFromBonus ==
    pc # "build" =>
        \A percent \in dc.config.renewable_percentage..100 :
            \/ SubMetrics("box3")[4].score <= RenewableScoreAt(percent)
            \/ /\ dc.config.ppa_available
               /\ dc.config.renewable_percentage < 50
               /\ percent >= 50

\* C29 witness: scored with a PPA at a renewable fraction of 0.49 (score
\* 59), where the fraction 0.50 scores 50
ScoredBelowBonusEdge ==
    /\ pc = "scored"
    /\ dc.config.ppa_available
    /\ dc.config.renewable_percentage = 49
    /\ SubMetrics("box3")[4].score = 5900
    /\ RenewableScoreAt(50) = 5000

NoGpuLoad == \A i \in 1..Len(dc.servers) : dc.servers[i].gpu_utilization = 0

\* C30: for a non-empty fleet in which no server reports gpu_utilization > 0
\* the Box 1 Utilization score never exceeds 60, whatever the CPU
\* utilization: the GPU score of 0 is blended in with weight at least 0.4.
UtilizationCappedWithoutGpuLoad ==
    (pc # "build" /\ Len(dc.servers) > 0 /\ NoGpuLoad) =>
        /\ SubMetrics("box1")[2].score <= 6000
        /\ 10 * GpuTypeServers > 3 * Len(dc.servers) =>
               SubMetrics("box1")[2].score <= 3000

\* C30 witness: a scored fleet without GPU load whose CPU utilization is at
\* or above the 60 % target, scoring exactly 60
ScoredSixtyWithoutGpuLoad ==
    /\ pc = "scored"
    /\ Len(dc.servers) > 0
    /\ NoGpuLoad
    /\ avg_cpu_utilization(dc) >= 6000
    /\ SubMetrics("box1")[2].score = 6000

====
